---- MODULE Spec2Model ----
(***************************************************************************)
(* Model of the step-wise action execution engine of src/src/api.py:       *)
(* execute_actions_intelligently (the session orchestrator and its step    *)
(* loop), the step classifier it inlines, is_popup_visible,                *)
(* extract_popup_html, execute_click_action and execute_hover_action.      *)
(*                                                                         *)
(* Browser, page and language model are the environment: every probe of    *)
(* the page and every call that can fail draws its outcome with \E.        *)
(* Exceptions are Python `Exception`s (what `except Exception` catches).   *)
(***************************************************************************)
EXTENDS Integers, Sequences, FiniteSets, TLC

VARIABLES
    pc,                \* position in execute_actions_intelligently
    steps,             \* the parsed steps (api.py:530-539)
    i,                 \* the loop index of `for i, step in enumerate(steps, 1)`
    actions_executed,  \* all_results["actions_executed"]
    errors,            \* all_results["errors"]
    playwright,        \* the async_playwright() scope: "none" | "started" | "stopped"
    browser,           \* "none" | "open" | "closed"
    context,           \* "none" | "open" | "closed"
    page,              \* modal selectors with a visible match, as last probed
    current_html,      \* the markup captured for the current step
    action,            \* the action returned by get_single_action_from_step
    use_text,          \* use_text_locator inside execute_click_action
    target,            \* selector inside execute_click_action
    k,                 \* index of the strategy execute_click_action is at
    clicked,           \* TRUE once a strategy's click mechanism completed
    attempts,          \* strategies attempted by the running click, in order
    last_pass,         \* how the last pass of the running click's strategy loop ended
    calls,             \* per step: the collaborators called while processing it
    raised,            \* exceptions raised so far: records [where, step]
    result,            \* "none" | "returned" | "raised": how the run ended
    instructions,      \* the `instructions` argument: the scenario text
    result_text,       \* get_single_action_from_step: the raw model output
    popup_html,        \* normalize_popup_html_for_cache: the markup handed in
    structure_key,     \* normalize_popup_html_for_cache: the key returned
    llm_cache,         \* the rows of the llm_cache table, by request hash
    now,               \* the clock, in hours
    request,           \* the last resolve: <<model, cache_prompt>>
    cache_on,          \* the last resolve: get_cache() returned a cache
    invoked,           \* the last resolve: the model was invoked
    html_cache,        \* the rows of the html_cache table, by url
    popup_cache,       \* the rows of the popup_cache table, by structure key
    utc_offset,        \* the host's local time minus UTC, in hours
    writers,           \* per concurrent run: the cache write it is in
    action_plan,       \* PlaywrightAgent.execute_action_plan: its action_plan
    element,           \* the click target throughout one call, when it is fixed
    environ,           \* os.environ's ENABLE_CACHE
    generating         \* per request to /api/generate: where it is

vars == <<pc, steps, i, actions_executed, errors, playwright, browser, context,
          page, current_html, action, use_text, target, k, clicked, attempts, last_pass,
          calls, raised, result, instructions, result_text, popup_html,
          structure_key, llm_cache, now, request, cache_on, invoked,
          html_cache, popup_cache, utc_offset, writers, action_plan,
          element, environ,
                   generating>>

\* the state of one run of execute_actions_intelligently, result_text apart
run_vars == <<pc, steps, i, actions_executed, errors, playwright, browser,
              context, page, current_html, action, use_text, target, k,
              clicked, attempts, last_pass, calls, raised, result, instructions>>

\* what normalize_popup_html_for_cache works on
normalize_vars == <<popup_html, structure_key>>

\* the cache database and the resolves made against it
cache_vars == <<llm_cache, now, request, cache_on, invoked>>

\* the other tables of the cache database, the host's clock setting and
\* the writes under way
store_vars == <<html_cache, popup_cache, utc_offset, writers>>

\* what no step of a run writes
outside_run == <<instructions, normalize_vars, cache_vars, store_vars,
                 action_plan, element, environ,
                   generating>>

(***************************************************************************)
(* Bounds of the model.                                                    *)
(***************************************************************************)
MaxSteps == 2

\* lines of a scenario text handed to the parser
MaxLines == 2

\* elements of a popup's markup
MaxElements == 2

\* the last hour of the clock
MaxClock == 2

\* items of an action plan
MaxPlan == 2

(***************************************************************************)
(* Strings: str.lower() and the `in` substring test, computed on the text. *)
(***************************************************************************)
LowerChar(c) ==
    CASE c = "A" -> "a" [] c = "B" -> "b" [] c = "C" -> "c" [] c = "D" -> "d"
      [] c = "E" -> "e" [] c = "F" -> "f" [] c = "G" -> "g" [] c = "H" -> "h"
      [] c = "I" -> "i" [] c = "J" -> "j" [] c = "K" -> "k" [] c = "L" -> "l"
      [] c = "M" -> "m" [] c = "N" -> "n" [] c = "O" -> "o" [] c = "P" -> "p"
      [] c = "Q" -> "q" [] c = "R" -> "r" [] c = "S" -> "s" [] c = "T" -> "t"
      [] c = "U" -> "u" [] c = "V" -> "v" [] c = "W" -> "w" [] c = "X" -> "x"
      [] c = "Y" -> "y" [] c = "Z" -> "z" [] OTHER -> c

RECURSIVE lower(_)
lower(s) ==
    IF Len(s) = 0 THEN ""
    ELSE LowerChar(SubSeq(s, 1, 1)) \o lower(SubSeq(s, 2, Len(s)))

\* Python's `sub in s`
Contains(sub, s) ==
    \E p \in 1..(Len(s) - Len(sub) + 1) : SubSeq(s, p, p + Len(sub) - 1) = sub

(***************************************************************************)
(* Step parsing (api.py:529-539), computed on the text of `instructions`.  *)
(***************************************************************************)
Whitespace == {" ", "\t", "\r", "\f"}

Digits == {"0", "1", "2", "3", "4", "5", "6", "7", "8", "9"}

LowerLetters ==
    {"a", "b", "c", "d", "e", "f", "g", "h", "i", "j", "k", "l", "m", "n",
     "o", "p", "q", "r", "s", "t", "u", "v", "w", "x", "y", "z"}

Min(S) == CHOOSE x \in S : \A y \in S : x <= y

Max(S) == CHOOSE x \in S : \A y \in S : x >= y

\* str.isalpha() of one character
isalpha(c) == c \in LowerLetters \/ LowerChar(c) # c

\* instructions.split('\n')
RECURSIVE split_lines(_)
split_lines(s) ==
    LET breaks == {p \in 1..Len(s) : SubSeq(s, p, p) = "\n"}
    IN  IF breaks = {} THEN <<s>>
        ELSE <<SubSeq(s, 1, Min(breaks) - 1)>>
                 \o split_lines(SubSeq(s, Min(breaks) + 1, Len(s)))

\* '\n'.join(lines)
RECURSIVE join_lines(_)
join_lines(lines) ==
    IF lines = <<>> THEN ""
    ELSE IF Len(lines) = 1 THEN lines[1]
    ELSE lines[1] \o "\n" \o join_lines(Tail(lines))

\* line.strip()
strip(s) ==
    LET inked == {p \in 1..Len(s) : SubSeq(s, p, p) \notin Whitespace}
    IN  IF inked = {} THEN "" ELSE SubSeq(s, Min(inked), Max(inked))

\* api.py:533: `if not line or not any(c.isalpha() for c in line): continue`
keeps_nonempty(line) == line # ""

keeps_line(line) ==
    line # "" /\ \E p \in 1..Len(line) : isalpha(SubSeq(line, p, p))

\* api.py:537: re.sub(r'^\d+[\.\)]\s*', '', line)
remove_leading_digits(line) ==
    LET n == Len(line)
        d == Min({p \in 1..(n + 1) :
                     p = n + 1 \/ SubSeq(line, p, p) \notin Digits}) - 1
    IN  SubSeq(line, d + 1, n)

remove_enumeration(line) ==
    LET n == Len(line)
        Ch(p) == SubSeq(line, p, p)
        \* the digits matched by \d+
        d == Min({p \in 1..(n + 1) : p = n + 1 \/ Ch(p) \notin Digits}) - 1
        \* the first character \s* does not match, after the marker
        rest == Min({p \in (d + 2)..(n + 1) :
                        p = n + 1 \/ Ch(p) \notin Whitespace})
    IN  IF d >= 1 /\ d < n /\ Ch(d + 1) \in {".", ")"}
        THEN SubSeq(line, rest, n)
        ELSE line

\* the body of the `for line in ...` loop, over the lines left
RECURSIVE parse_lines(_)
parse_lines(lines) ==
    IF lines = <<>> THEN <<>>
    ELSE LET line == strip(Head(lines))
         IN  IF ~keeps_line(line) THEN parse_lines(Tail(lines))
             ELSE (IF remove_enumeration(line) # ""
                   THEN <<remove_enumeration(line)>> ELSE <<>>)
                      \o parse_lines(Tail(lines))

parse_steps(text) == parse_lines(split_lines(text))

(***************************************************************************)
(* The step classifier (api.py:550-566).                                   *)
(***************************************************************************)
PopupKeywords ==
    {"popup", "modal", "dialog", "cancel", "close", "continue", "confirm", "ok"}

PopupButtonKeywords ==
    {"cancel", "close", "continue", "confirm", "ok", "dismiss"}

ObservationPhrases ==
    {"popup appears", "modal appears", "dialog appears",
     "popup closes", "modal closes", "dialog closes",
     "popup is visible", "modal is visible", "dialog is visible",
     "verify popup", "check popup", "popup should"}

ActionWords == {"click", "press", "tap", "select"}

is_popup_step(step) == \E kw \in PopupKeywords : Contains(kw, lower(step))

is_popup_button_step(step) ==
    \E kw \in PopupButtonKeywords : Contains(kw, lower(step))

is_observation_step(step) ==
    \E phrase \in ObservationPhrases : Contains(phrase, lower(step))

has_action_word(step) == \E w \in ActionWords : Contains(w, lower(step))

\* the condition of the `if` at api.py:566
pure_observation_nocase(step) ==
    /\ \E phrase \in ObservationPhrases : Contains(phrase, step)
    /\ ~ \E w \in ActionWords : Contains(w, step)

pure_observation(step) == is_observation_step(step) /\ ~has_action_word(step)

(***************************************************************************)
(* The step texts the runs are made of.                                    *)
(***************************************************************************)
StepPool ==
    {"Verify the popup is visible",
     "Verify popup closes",
     "Click Cancel when the popup appears",
     "Click the Cancel button",
     "Open the modal",
     "Click Learn More"}

\* a four-step scenario in the manner of the request example
\* (api.py:62-70): the `instructions` text as written, and the steps it is
\* parsed into
ScenarioLines ==
    <<"1. Click Learn More", "2. Verify a popup appears", "3. Click Cancel",
      "4. Verify popup closes">>

ScenarioSteps ==
    <<"Click Learn More", "Verify a popup appears", "Click Cancel",
      "Verify popup closes">>

\* the texts of the popup steps whose cache keys are compared
KeyStepTexts ==
    {"Click the Cancel button", "Click  the  Close icon",
     "Click the Save button in the dialog",
     "Click the Delete button in the dialog", "Hover over the Cancel button",
     "Click No in the dialog", "Click the Notify me link in the popup"}

\* texts for the classifier alone: a lead followed by an object
Leads ==
    {"", "Verify the ", "Click Cancel when the ", "PRESS Enter once the ",
     "Unselected, the ", "Wait until the "}

Objects ==
    {"popup appears", "Modal Appears", "dialog appears",
     "popup closes", "MODAL CLOSES", "dialog closes",
     "popup is visible", "modal is visible", "Dialog Is Visible",
     "verify popup", "Check Popup", "popup should close",
     "popup opens", "page loads", "dialog is hidden", "banner appears",
     "dismiss the banner", "booking page"}

ClassifierTexts == {l \o o : l \in Leads, o \in Objects}

\* the classification of each text, computed once
Classify ==
    [t \in StepPool \cup ClassifierTexts \cup {ScenarioSteps[n] : n \in 1..4}
            \cup KeyStepTexts |->
        [popup       |-> is_popup_step(t),
         button      |-> is_popup_button_step(t),
         observation |-> is_observation_step(t),
         pure        |-> pure_observation(t)]]

Scripts == UNION {[1..n -> StepPool] : n \in 0..MaxSteps}

\* lines as a scenario file holds them: numbered, indented, blank, rules
LinePool ==
    {"3. Click the Submit button",
     "  2) Open the modal  ",
     "",
     "---",
     "12.",
     "Click Learn More",
     "1. 2. Verify popup closes",
     "5 seconds wait",
     "4.Click the Cancel button",
     "\tVerify popup closes\r"}

RawScripts == UNION {[1..n -> LinePool] : n \in 0..MaxLines}

(***************************************************************************)
(* The page: which modal selector patterns have a visible match.           *)
(***************************************************************************)
IsPopupVisibleSelectors ==
    <<"[role='dialog']:visible", "[aria-modal='true']:visible",
      ".modal:visible", ".popup:visible">>

ExtractPopupSelectors ==
    <<"[role='dialog']:visible", "[aria-modal='true']:visible",
      ".modal:visible", ".modal.show:visible", ".popup:visible",
      ".modal-dialog:visible", "[class*='modal']:visible",
      "[class*='popup']:visible", "[class*='dialog']:visible">>

PageStates ==
    { {},
      {"[role='dialog']:visible", "[class*='dialog']:visible"} }

Range(f) == {f[x] : x \in DOMAIN f}

\* api.py:457-476
is_popup_visible(p) == \E s \in Range(IsPopupVisibleSelectors) : s \in p

\* no selector is found visible
extract_nothing(p) == ""

\* api.py:423-454, without the popup cache: "" or the modal's markup
extract_popup_html(p) ==
    IF \E s \in Range(ExtractPopupSelectors) : s \in p THEN "popup" ELSE ""

(***************************************************************************)
(* What get_single_action_from_step can return (api.py:956-967): None, or  *)
(* a dictionary with a truthy "action" and a "selector" key.  NULL is a    *)
(* JSON null selector.                                                     *)
(***************************************************************************)
NULL == "<null>"
NoAction == [action |-> "none", selector |-> "", use_text_locator |-> FALSE]

ResolvedActions ==
    { [action |-> "click", selector |-> "#learn-more-btn", use_text_locator |-> FALSE],
      [action |-> "click", selector |-> "Cancel",          use_text_locator |-> TRUE],
      [action |-> "click", selector |-> "button:contains('Cancel')",
                                                          use_text_locator |-> FALSE],
      [action |-> "click", selector |-> "a:has-text(Learn More)",
                                                          use_text_locator |-> FALSE],
      [action |-> "click", selector |-> NULL,              use_text_locator |-> FALSE],
      [action |-> "hover", selector |-> "#menu",           use_text_locator |-> FALSE],
      [action |-> "type",  selector |-> "#search",         use_text_locator |-> FALSE] }

(***************************************************************************)
(* The raw output of the model (api.py:933/946, or the cached response of  *)
(* api.py:922): a text, given by what a JSON reader finds in it and by     *)
(* whether it comes inside a ``` fence.  "malformed" is text that is not   *)
(* JSON, "empty" the empty text; a key an object does not have is Absent.  *)
(***************************************************************************)
Absent == "<absent>"

Json(type) ==
    [type |-> type, action |-> Absent, selector |-> Absent,
     use_text_locator |-> Absent]

JsonObject(a, s, u) ==
    [type |-> "object", action |-> a, selector |-> s, use_text_locator |-> u]

RawText(fence, json) == [fence |-> fence, json |-> json]

EmptyText == RawText(FALSE, Json("empty"))

ModelOutputs ==
    { RawText(FALSE, Json("malformed")),
      RawText(TRUE,  Json("malformed")),
      EmptyText,
      RawText(FALSE, Json("null")),
      RawText(FALSE, Json("array")),
      RawText(FALSE, JsonObject(Absent, Absent, Absent)),
      RawText(FALSE, JsonObject(NULL, "#learn-more-btn", FALSE)),
      RawText(FALSE, JsonObject("click", Absent, Absent)),
      RawText(TRUE,  JsonObject("click", "Cancel", TRUE)) }
    \cup { RawText(FALSE, JsonObject(a.action, a.selector, a.use_text_locator)) :
             a \in ResolvedActions }

\* api.py:951-954: the text inside the fence
clean_json(text) == [text EXCEPT !.fence = FALSE]

\* api.py:956-967: None (NoAction here) when json.loads raises, when the
\* value has no .get (it is no object), when "action" is absent or falsy,
\* and when action_data['selector'] raises KeyError at api.py:959
get_action_unchecked(text) ==
    LET j == clean_json(text).json
    IN  IF j.type # "object" THEN NoAction
        ELSE [action |-> j.action, selector |-> j.selector,
              use_text_locator |-> j.use_text_locator = TRUE]

get_action(text) ==
    LET j == clean_json(text).json
    IN  IF j.type \in {"malformed", "empty"} THEN NoAction
        ELSE IF j.type # "object" THEN NoAction
        ELSE IF j.action \in {Absent, NULL, ""} THEN NoAction
        ELSE IF j.selector = Absent THEN NoAction
        ELSE [action |-> j.action, selector |-> j.selector,
              use_text_locator |-> j.use_text_locator = TRUE]

\* where get_single_action_from_step can raise: the model call and the
\* cache calls of api.py:917-946 stand before its `try`
ResolverRaises == {"model", "cache"}

(***************************************************************************)
(* Records of the result dictionary.                                       *)
(***************************************************************************)
Outcome(n, a, ok) ==
    [idx |-> n, step |-> steps[n], action |-> a, success |-> ok]

Error(kind, n) == [kind |-> kind, step |-> n]

CallNames == {"is_popup_visible", "extract_popup_html", "page.content",
              "resolver", "click", "hover"}

Called(n, names) == [calls EXCEPT ![n] = @ \cup names]

Raise(where, n) == raised \cup {[where |-> where, step |-> n]}

(***************************************************************************)
(* Init: all_results as constructed at api.py:511-517, nothing started.    *)
(***************************************************************************)
\* nothing normalized yet
NoKey == [kind |-> "none", buttons |-> <<>>, html_length |-> 0]

NormalizeIdle ==
    /\ popup_html = <<>>
    /\ structure_key = NoKey

\* the runs that share one cache database
Writers == {"run1", "run2"}

\* Python's None where a str is expected
NoneStr == "<None>"

NoWrite ==
    [pc |-> "idle", table |-> "", key |-> "", value |-> "", expires_at |-> 0]

\* an empty cache database, no write under way, no resolve made yet
StoreEmpty ==
    /\ html_cache = <<>>
    /\ popup_cache = <<>>
    /\ writers = [w \in Writers |-> NoWrite]
    /\ llm_cache = <<>>
    /\ now = 0
    /\ request = <<>>
    /\ cache_on = FALSE
    /\ invoked = FALSE

\* the same on a host whose clock is set to UTC
CacheIdle ==
    /\ StoreEmpty
    /\ utc_offset = 0

\* the requests to /api/generate that may be in flight together
Requests == {"r1", "r2"}

NoRequest == [pc |-> "idle", use_cache |-> TRUE, old_cache_setting |-> NoneStr]

\* ENABLE_CACHE unset and no request to /api/generate
EnvIdle ==
    /\ environ = NoneStr
    /\ generating = [r \in Requests |-> NoRequest]

InitWith(scripts) ==
    /\ EnvIdle
    /\ pc = "start"
    /\ instructions \in {join_lines(script) : script \in scripts}
    /\ steps = <<>>
    /\ i = 1
    /\ actions_executed = <<>>
    /\ errors = <<>>
    /\ playwright = "none"
    /\ browser = "none"
    /\ context = "none"
    /\ page = {}
    /\ current_html = ""
    /\ action = NoAction
    /\ use_text = FALSE
    /\ target = ""
    /\ k = 0
    /\ clicked = FALSE
    /\ attempts = <<>>
    /\ last_pass = ""
    /\ calls = <<>>
    /\ raised = {}
    /\ result = "none"
    /\ action_plan = <<>>
    /\ result_text = EmptyText
    /\ NormalizeIdle
    /\ CacheIdle

\* a run on a page whose elements change state freely
InitOn(scripts) ==
    /\ InitWith(scripts)
    /\ element = "any"

Init == InitOn(Scripts)

\* one-step runs over the classifier's texts
InitClassify == InitOn([1..1 -> ClassifierTexts])

\* scenario texts as written, for the parser
InitParse == InitOn(RawScripts)

\* the four-step scenario, as written
InitScenario == InitOn({ScenarioLines})

(***************************************************************************)
(* Leaving the `async with async_playwright()` block (api.py:520): the     *)
(* Playwright driver is stopped, which closes the browsers and contexts    *)
(* it launched.                                                            *)
(***************************************************************************)
AsyncWithExitLeak(b) == b

AsyncWithExit(b) == IF b = "open" THEN "closed" ELSE b

\* api.py:719-723: `except Exception` appends one entry and falls through
\* to `return all_results`
FatalHandlerReraise == "raised"

FatalHandler == "returned"

\* an exception escapes the `async with` body while processing step n (0:
\* outside the step loop) with the browser in state b and the context in c
Fatal(where, n, b, c) ==
    /\ raised' = Raise(where, n)
    /\ playwright' = "stopped"
    /\ browser' = AsyncWithExit(b)
    /\ context' = AsyncWithExit(c)
    /\ errors' = Append(errors, Error("Fatal error", n))
    /\ result' = FatalHandler
    /\ pc' = "done"

TransientReset ==
    /\ current_html' = ""
    /\ result_text' = EmptyText
    /\ action' = NoAction
    /\ use_text' = FALSE
    /\ target' = ""
    /\ k' = 0
    /\ clicked' = FALSE
    /\ attempts' = <<>>
    /\ last_pass' = ""

\* api.py:544 `for i, step in enumerate(steps, 1)`: the step after step n
enumerate_same(n) == n

enumerate_next(n) == n + 1

\* `continue` / falling off the loop body: on to the next step
NextStep ==
    /\ i' = enumerate_next(i)
    /\ pc' = "loop"
    /\ TransientReset

(***************************************************************************)
(* api.py:520-527: start Playwright, launch the browser, open the page.    *)
(***************************************************************************)
StartSession ==
    /\ pc = "start"
    /\ \E outcome \in {"ok", "launch_raises", "goto_raises"} :
         \/ /\ outcome = "ok"
            /\ playwright' = "started"
            /\ browser' = "open"
            /\ context' = "open"
            /\ steps' = parse_steps(instructions)
            /\ calls' = [n \in 1..Len(steps') |-> {}]
            /\ pc' = "loop"
            /\ UNCHANGED <<errors, raised, result>>
         \/ /\ outcome = "launch_raises"
            /\ Fatal("launch", 0, "none", "none")
            /\ UNCHANGED <<steps, calls>>
         \/ /\ outcome = "goto_raises"
            /\ Fatal("goto", 0, "open", "open")
            /\ UNCHANGED <<steps, calls>>
    /\ UNCHANGED <<i, actions_executed, page, current_html, action,
                   use_text, target, k, clicked, attempts, last_pass, result_text>>
    /\ UNCHANGED outside_run

(***************************************************************************)
(* api.py:566-574: a pure observation step is recorded and skipped.        *)
(***************************************************************************)
\* the order of the tests at api.py:566 and 577: the popup pre-check is
\* reached only by a step that is not pure observation
precheck_before_observation(step) == Classify[step].button

precheck_applies(step) == ~Classify[step].pure /\ Classify[step].button

\* api.py:579: `if not popup_visible`
precheck_never_skips(visible) == FALSE

precheck_skips(visible) == ~visible

ObservationStep ==
    /\ pc = "loop"
    /\ i <= Len(steps)
    /\ Classify[steps[i]].pure
    /\ ~precheck_applies(steps[i])
    /\ actions_executed' = Append(actions_executed, Outcome(i, "observation", TRUE))
    /\ NextStep
    /\ UNCHANGED <<steps, errors, playwright, browser, context, page, calls,
                   raised, result>>
    /\ UNCHANGED outside_run

(***************************************************************************)
(* api.py:577-588: the popup pre-check of a popup button step.             *)
(***************************************************************************)
PopupPrecheck ==
    /\ pc = "loop"
    /\ i <= Len(steps)
    /\ precheck_applies(steps[i])
    /\ \E p \in PageStates :
         /\ page' = p
         /\ calls' = Called(i, {"is_popup_visible"})
         /\ IF precheck_skips(is_popup_visible(p))
            THEN /\ actions_executed' =
                        Append(actions_executed, Outcome(i, "skip", TRUE))
                 /\ NextStep
            ELSE /\ pc' = "capture"
                 /\ UNCHANGED <<i, actions_executed, current_html, action,
                                use_text, target, k, clicked, attempts, last_pass,
                                result_text>>
    /\ UNCHANGED <<steps, errors, playwright, browser, context, raised, result>>
    /\ UNCHANGED outside_run

\* a step that is neither pure observation nor a popup button step
OrdinaryStep ==
    /\ pc = "loop"
    /\ i <= Len(steps)
    /\ ~Classify[steps[i]].pure
    /\ ~Classify[steps[i]].button
    /\ pc' = "capture"
    /\ UNCHANGED <<steps, i, actions_executed, errors, playwright, browser,
                   context, page, current_html, action, use_text, target, k,
                   clicked, attempts, last_pass, calls, raised, result, result_text>>
    /\ UNCHANGED outside_run

(***************************************************************************)
(* api.py:590-635: capture the markup handed to the resolver.              *)
(***************************************************************************)
\* the same with a handler that records nothing
PageContentSilent(ok, html) ==
    /\ calls' = Called(i, {"page.content"})
    /\ IF ok
       THEN /\ current_html' = html
            /\ pc' = "resolve"
            /\ UNCHANGED <<i, errors, raised, action, use_text, target, k,
                           clicked, attempts, last_pass, result_text>>
       ELSE /\ errors' = errors
            /\ raised' = Raise("page.content", i)
            /\ NextStep
    /\ UNCHANGED actions_executed

\* `current_html = await page.content()` (truncated when asked), or the
\* handler of api.py:632-635 when it raises
PageContent(ok, html) ==
    /\ calls' = Called(i, IF Classify[steps[i]].popup /\ ~Classify[steps[i]].observation
                          THEN {"extract_popup_html", "page.content"}
                          ELSE {"page.content"})
    /\ IF ok
       THEN /\ current_html' = html
            /\ pc' = "resolve"
            /\ UNCHANGED <<i, errors, raised, action, use_text, target, k,
                           clicked, attempts, last_pass, result_text>>
       ELSE /\ errors' = Append(errors, Error("Failed to get page content", i))
            /\ raised' = Raise("page.content", i)
            /\ NextStep
    /\ UNCHANGED actions_executed

CaptureHtml ==
    /\ pc = "capture"
    /\ LET c == Classify[steps[i]] IN
         \/ /\ c.popup /\ ~c.observation
            /\ \E p \in PageStates :
                 /\ page' = p
                 /\ IF extract_popup_html(p) # ""
                    THEN /\ current_html' = extract_popup_html(p)
                         /\ calls' = Called(i, {"extract_popup_html"})
                         /\ pc' = "resolve"
                         /\ UNCHANGED <<i, actions_executed, errors, raised,
                                        action, use_text, target, k, clicked,
                                        attempts, last_pass, result_text>>
                    ELSE IF c.button
                    THEN /\ calls' = Called(i, {"extract_popup_html"})
                         /\ actions_executed' =
                               Append(actions_executed, Outcome(i, "skip", TRUE))
                         /\ NextStep
                         /\ UNCHANGED <<errors, raised>>
                    ELSE \E ok \in BOOLEAN : PageContent(ok, "page")
         \/ /\ ~(c.popup /\ ~c.observation)
            /\ c.observation
            /\ \E ok \in BOOLEAN : PageContent(ok, "page[:5000]")
            /\ UNCHANGED page
         \/ /\ ~(c.popup /\ ~c.observation)
            /\ ~c.observation
            /\ \E ok \in BOOLEAN : PageContent(ok, "page")
            /\ UNCHANGED page
    /\ UNCHANGED <<steps, playwright, browser, context, result>>
    /\ UNCHANGED outside_run

(***************************************************************************)
(* api.py:638 and 909-946: get_single_action_from_step is called and gets  *)
(* the raw output, from the model or from the cache; a call that raises    *)
(* there is caught by no handler of the step loop.                         *)
(***************************************************************************)
ResolveAction ==
    /\ pc = "resolve"
    /\ calls' = Called(i, {"resolver"})
    /\ \/ /\ \E text \in ModelOutputs : result_text' = text
          /\ pc' = "parse"
          /\ UNCHANGED <<errors, playwright, browser, context, raised, result>>
       \/ /\ \E where \in ResolverRaises : Fatal(where, i, browser, context)
          /\ UNCHANGED result_text
    /\ UNCHANGED <<steps, i, actions_executed, page, current_html, action,
                   use_text, target, k, clicked, attempts, last_pass>>
    /\ UNCHANGED outside_run

(***************************************************************************)
(* api.py:948-967 and 640-648: the raw output is read; without an action   *)
(* the step is recorded as a no-op.                                        *)
(***************************************************************************)
ParseResponse ==
    /\ pc = "parse"
    /\ IF get_action(result_text) = NoAction
       THEN /\ actions_executed' = Append(actions_executed, Outcome(i, "none", TRUE))
            /\ NextStep
       ELSE /\ action' = get_action(result_text)
            /\ pc' = "execute"
            /\ UNCHANGED <<i, actions_executed, current_html, result_text,
                           use_text, target, k, clicked, attempts, last_pass>>
    /\ UNCHANGED <<steps, errors, playwright, browser, context, page, calls,
                   raised, result>>
    /\ UNCHANGED outside_run

(***************************************************************************)
(* api.py:681-700: an exception reached the step loop's handler.           *)
(***************************************************************************)
HaltOnExceptionContinue == i + 1

HaltOnExceptionBreak == i

HaltOnExceptionNoOutcome(where) ==
    /\ raised' = Raise(where, i)
    /\ errors' = errors \o <<Error("Failed to execute", i),
                             Error("STOPPED at step", i)>>
    /\ actions_executed' = actions_executed
    /\ i' = HaltOnExceptionBreak
    /\ pc' = IF i' = i THEN "finish" ELSE "loop"

HaltOnExceptionOneEntry(where) ==
    /\ raised' = Raise(where, i)
    /\ errors' = Append(errors, Error("STOPPED at step", i))
    /\ actions_executed' =
           Append(actions_executed, Outcome(i, action.action, FALSE))
    /\ i' = HaltOnExceptionBreak
    /\ pc' = IF i' = i THEN "finish" ELSE "loop"

HaltOnException(where) ==
    /\ raised' = Raise(where, i)
    /\ errors' = errors \o <<Error("Failed to execute", i),
                             Error("STOPPED at step", i)>>
    /\ actions_executed' =
           Append(actions_executed, Outcome(i, action.action, FALSE))
    /\ i' = HaltOnExceptionBreak
    /\ pc' = IF i' = i THEN "finish" ELSE "loop"

(***************************************************************************)
(* execute_click_action (api.py:251-420).                                  *)
(***************************************************************************)
Strategies ==
    << [name |-> "Standard click (visible)",           require_visible |-> TRUE],
       [name |-> "Force click (visible)",              require_visible |-> TRUE],
       [name |-> "JS click (bypass visibility)",       require_visible |-> FALSE],
       [name |-> "Dispatch click (bypass visibility)", require_visible |-> FALSE] >>

\* the target element during one pass of the loop: not in the DOM, attached
\* but not visible within the wait, or visible
ElementStates == {"detached", "hidden", "visible"}

\* strategy n does not wait for visibility
invokes_when_hidden_always(n) == TRUE

\* api.py:375 `if strategy.get("require_visible", True)`
invokes_when_hidden(n) == ~Strategies[n].require_visible

\* what one pass of the `for strategy in strategies` body can come to on an
\* element in state e: the lookup or the wait for attachment raises
\* (api.py:349-372), the wait for visibility fails (api.py:376-382), the
\* click mechanism raises (api.py:389), a wait after the click raises
\* (api.py:398, 411), or the pass reaches `return True` (api.py:413)
StrategyOutcomes(n, e) ==
    IF e = "detached" THEN {"lookup_raises"}
    ELSE IF e = "hidden" /\ ~invokes_when_hidden(n) THEN {"not_visible"}
    ELSE {"mechanism_raises", "settle_raises", "clicked"}

\* the passes that reached `await strategy['fn'](element)` (api.py:389)
MechanismInvoked == {"mechanism_raises", "settle_raises", "clicked"}

Quotes == {"'", "\""}

\* re.search(marker + r"['\"]([^'\"]+)['\"]\)", s) at api.py:268 and 276:
\* group 1 of the leftmost match, "" when there is none
QuotedArg(marker, s) ==
    LET n == Len(s)
        m == Len(marker)
        Ch(p) == SubSeq(s, p, p)
        Closing(p) == {e \in (p + m + 2)..(n - 1) :
                          /\ Ch(e) \in Quotes
                          /\ Ch(e + 1) = ")"
                          /\ \A q \in (p + m + 1)..(e - 1) : Ch(q) \notin Quotes}
        Starts == {p \in 1..n :
                      /\ p + m <= n
                      /\ SubSeq(s, p, p + m - 1) = marker
                      /\ Ch(p + m) \in Quotes
                      /\ Closing(p) # {}}
    IN  IF Starts = {} THEN ""
        ELSE SubSeq(s, Min(Starts) + m + 1, Min(Closing(Min(Starts))) - 1)

\* api.py:263-281: the text a legacy pseudo-selector is converted to, ""
\* when the selector is kept as it is
LegacyText(selector) ==
    IF Contains(":contains(", selector) \/ Contains(":has-text(", selector)
    THEN IF QuotedArg(":contains(", selector) # ""
         THEN QuotedArg(":contains(", selector)
         ELSE QuotedArg(":has-text(", selector)
    ELSE ""

\* LegacyText of each selector the resolver can return, computed once
Converted ==
    [sel \in {a.selector : a \in ResolvedActions} |-> LegacyText(sel)]

\* api.py:652-654 and 251-304: the call, up to the strategy loop
ExecuteClick ==
    /\ pc = "execute"
    /\ action.action = "click"
    /\ calls' = Called(i, {"click"})
    /\ IF action.selector = NULL
       THEN /\ HaltOnException("execute_click_action")
            /\ UNCHANGED <<use_text, target, k, clicked, attempts, last_pass>>
       ELSE /\ target' = IF Converted[action.selector] # ""
                         THEN Converted[action.selector] ELSE action.selector
            /\ use_text' = (action.use_text_locator
                                \/ Converted[action.selector] # "")
            /\ k' = 1
            /\ clicked' = FALSE
            /\ attempts' = <<>>
            /\ last_pass' = ""
            /\ pc' = "click"
            /\ UNCHANGED <<i, actions_executed, errors, raised>>
    /\ UNCHANGED <<steps, playwright, browser, context, page, current_html,
                   action, result, result_text>>
    /\ UNCHANGED outside_run

\* the loop goes on while no strategy has returned and one is left
StrategyLoopIgnoresSuccess == k <= Len(Strategies)

StrategyLoopRuns == ~clicked /\ k <= Len(Strategies)

SameStrategy == k

NextStrategy == k + 1

\* api.py:306-417: one pass of the strategy loop, the element being in one
\* of the states es
ClickStrategy(es) ==
    /\ pc = "click"
    /\ StrategyLoopRuns
    /\ attempts' = Append(attempts, k)
    /\ \E e \in es : \E outcome \in StrategyOutcomes(k, e) :
         /\ clicked' = (outcome = "clicked")
         /\ last_pass' = outcome
         /\ k' = IF outcome = "clicked" THEN k ELSE NextStrategy
         /\ raised' = IF outcome = "mechanism_raises"
                      THEN Raise("click_mechanism", i) ELSE raised
    /\ UNCHANGED <<pc, steps, i, actions_executed, errors, playwright, browser,
                   context, page, current_html, action, use_text, target,
                   calls, result, result_text>>
    /\ UNCHANGED outside_run

\* api.py:413 `return True` inside the loop, api.py:420 `return False`
\* after it
click_result_true == TRUE

click_result == clicked

\* api.py:656-670 and 673-679: the executor returned; whatever it returned,
\* the loop body ends and the next step follows
after_action_halts_on_failure(success) == IF success THEN "loop" ELSE "finish"

after_action(success) == "loop"

RecordAction(kind, success) ==
    /\ actions_executed' = Append(actions_executed, Outcome(i, kind, success))
    /\ pc' = after_action(success)
    /\ i' = IF after_action(success) = "loop" THEN enumerate_next(i) ELSE i
    /\ TransientReset

\* the click returned, its outcome is recorded
ClickReturn ==
    /\ pc = "click"
    /\ ~StrategyLoopRuns
    /\ RecordAction("click", click_result)
    /\ UNCHANGED <<steps, errors, playwright, browser, context, page, calls,
                   raised, result>>
    /\ UNCHANGED outside_run

(***************************************************************************)
(* execute_hover_action (api.py:479-497) and its call (api.py:672-679).    *)
(***************************************************************************)
ExecuteHover ==
    /\ pc = "execute"
    /\ action.action = "hover"
    /\ calls' = Called(i, {"hover"})
    /\ \E outcome \in {"hovered", "not_visible", "mechanism_raises"} :
         /\ RecordAction("hover", outcome = "hovered")
         /\ raised' = IF outcome = "mechanism_raises"
                      THEN Raise("hover_mechanism", i) ELSE raised
    /\ UNCHANGED <<steps, errors, playwright, browser, context, page, result>>
    /\ UNCHANGED outside_run

\* api.py:652/672: an action kind that is neither "click" nor "hover"
\* matches no branch
ExecuteOther ==
    /\ pc = "execute"
    /\ action.action \notin {"click", "hover"}
    /\ NextStep
    /\ UNCHANGED <<steps, actions_executed, errors, playwright, browser,
                   context, page, calls, raised, result>>
    /\ UNCHANGED outside_run

(***************************************************************************)
(* api.py:702-717 after the loop, then the end of the `async with` block   *)
(* and `return all_results` (api.py:723).                                  *)
(***************************************************************************)
Finish ==
    /\ pc = "finish" \/ (pc = "loop" /\ i > Len(steps))
    /\ \/ /\ context' = "closed"
          /\ browser' = "closed"
          /\ playwright' = "stopped"
          /\ result' = "returned"
          /\ pc' = "done"
          /\ UNCHANGED <<errors, raised>>
       \/ Fatal("close", 0, browser, context)
    /\ UNCHANGED <<steps, i, actions_executed, page, current_html, action,
                   use_text, target, k, clicked, attempts, last_pass, calls, result_text>>
    /\ UNCHANGED outside_run

Next ==
    \/ StartSession
    \/ ObservationStep
    \/ PopupPrecheck
    \/ OrdinaryStep
    \/ CaptureHtml
    \/ ResolveAction
    \/ ParseResponse
    \/ ExecuteClick
    \/ ClickStrategy(ElementStates)
    \/ ClickReturn
    \/ ExecuteHover
    \/ ExecuteOther
    \/ Finish

Spec == Init /\ [][Next]_vars

(***************************************************************************)
(* normalize_popup_html_for_cache (api.py:726-764).  A popup's markup is   *)
(* the sequence of its elements in document order; `id` stands for the     *)
(* attributes the key is meant to leave out (id, class, style, data-...).  *)
(***************************************************************************)
Element(tag, text, type, role, id) ==
    [tag |-> tag, text |-> text, type |-> type, role |-> role, id |-> id]

ElementPool ==
    { Element("button", "Continue", Absent, Absent, "b1"),
      Element("button", "Continue", Absent, Absent, "btn-12"),
      Element("button", "Cancel", "submit", Absent, "b2"),
      Element("button", "Cancel", Absent, Absent, "b7"),
      Element("a", "Cancel", Absent, "button", "b3"),
      Element("a", "Cancel", Absent, Absent, "x9"),
      Element("input", "", "text", Absent, "q"),
      Element("div", "Session expiring", Absent, Absent, "m1") }

Markups == UNION {[1..n -> ElementPool] : n \in 0..MaxElements}

\* the text of an attribute, nothing when the element does not have it
Attribute(name, value) ==
    IF value = Absent THEN "" ELSE " " \o name \o "=\"" \o value \o "\""

\* the markup as text, for len(html)
Render(e) ==
    "<" \o e.tag \o Attribute("id", e.id) \o Attribute("type", e.type)
        \o Attribute("role", e.role) \o ">" \o e.text \o "</" \o e.tag \o ">"

RECURSIVE RenderAll(_)
RenderAll(html) ==
    IF html = <<>> THEN "" ELSE Render(Head(html)) \o RenderAll(Tail(html))

\* Python's order of str: by code point, a proper prefix first
CodePoints == " 0123456789ABCDEFGHIJKLMNOPQRSTUVWXYZabcdefghijklmnopqrstuvwxyz"

Ord(c) == CHOOSE p \in 1..Len(CodePoints) : SubSeq(CodePoints, p, p) = c

RECURSIVE str_le(_, _)
str_le(a, b) ==
    \/ a = ""
    \/ /\ b # ""
       /\ \/ Ord(SubSeq(a, 1, 1)) < Ord(SubSeq(b, 1, 1))
          \/ /\ SubSeq(a, 1, 1) = SubSeq(b, 1, 1)
             /\ str_le(SubSeq(a, 2, Len(a)), SubSeq(b, 2, Len(b)))

\* api.py:737-752: what is collected from one element of find_all
is_collected(e) == e.tag \in {"button", "a", "input"} /\ e.text # ""

collected(e) ==
    [tag |-> e.tag, text |-> e.text,
     attrs |-> [type |-> e.type, role |-> e.role]]

\* sorted(buttons, key=lambda x: x['text']): a stable sort, elements of
\* equal text keep the order they were collected in
RECURSIVE sorted_by_text(_)
sorted_by_text(buttons) ==
    IF buttons = <<>> THEN <<>>
    ELSE LET n == Len(buttons)
             x == buttons[n]
             front == sorted_by_text(SubSeq(buttons, 1, n - 1))
             before == Cardinality({j \in DOMAIN front :
                                       str_le(front[j].text, x.text)})
         IN  SubSeq(front, 1, before) \o <<x>> \o SubSeq(front, before + 1, n - 1)

\* api.py:733-761: the key when the markup is read
normalized(html) ==
    [kind |-> "structure",
     buttons |-> sorted_by_text(
                    [j \in DOMAIN SelectSeq(html, is_collected) |->
                        collected(SelectSeq(html, is_collected)[j])]),
     html_length |-> Len(RenderAll(html))]

\* api.py:762-764: the key when reading the markup raised
fallback(html) ==
    [kind |-> "fallback", buttons |-> html, html_length |-> Len(RenderAll(html))]

normalize_popup_html_for_cache(html, raises) ==
    IF raises THEN fallback(html) ELSE normalized(html)

\* no run of execute_actions_intelligently under way
NoRunUnderWay ==
    /\ pc = "idle"
    /\ instructions = ""
    /\ steps = <<>>
    /\ i = 1
    /\ actions_executed = <<>>
    /\ errors = <<>>
    /\ playwright = "none"
    /\ browser = "none"
    /\ context = "none"
    /\ current_html = ""
    /\ action = NoAction
    /\ use_text = FALSE
    /\ target = ""
    /\ k = 0
    /\ clicked = FALSE
    /\ attempts = <<>>
    /\ last_pass = ""
    /\ calls = <<>>
    /\ raised = {}
    /\ result = "none"
    /\ action_plan = <<>>
    /\ element = "any"
    /\ result_text = EmptyText

\* the same, with ENABLE_CACHE unset and no request to /api/generate
NoRun ==
    /\ NoRunUnderWay
    /\ EnvIdle

\* the same, on a page without modal
RunIdle ==
    /\ NoRun
    /\ page = {}

InitNormalize ==
    /\ RunIdle
    /\ popup_html \in Markups
    /\ structure_key = NoKey
    /\ CacheIdle

NormalizePopup ==
    /\ structure_key = NoKey
    /\ \E raises \in BOOLEAN :
         structure_key' = normalize_popup_html_for_cache(popup_html, raises)
    /\ UNCHANGED <<run_vars, result_text, popup_html, cache_vars, store_vars,
                   action_plan, element, environ,
                   generating>>

SpecNormalize == InitNormalize /\ [][NormalizePopup]_vars

(***************************************************************************)
(* The llm_cache table (cache.py:125-180) and the part of                  *)
(* get_single_action_from_step that goes through it (api.py:917-946).      *)
(* Hours are counted on one clock; md5 is taken to be free of collisions.  *)
(***************************************************************************)
\* CACHE_TTL_HOURS (cache.py:327), in hours of the clock
TtlHours == 1

Models == {"gpt-4o", "gpt-4o-mini"}

CachePrompts ==
    {"popup:visible||button:cancel||structure:none", "Click Learn More"}

\* the raw outputs the model gives in the cache's specification
CacheResponses ==
    { EmptyText,
      RawText(FALSE, Json("malformed")),
      RawText(FALSE, JsonObject("click", "#learn-more-btn", FALSE)) }

\* Python's None
None == RawText(FALSE, Json("None"))

\* cache.py:137 and 166: what the md5 is taken of
request_hash(model, prompt) == model \o ":" \o prompt

\* cache.py:142-155 at hour t
get_llm_response(rows, prompt, model, t) ==
    LET h == request_hash(model, prompt)
    IN  IF h \in DOMAIN rows /\ rows[h].expires_at > t
        THEN rows[h].response ELSE None

\* cache.py:114, 171 and 237: `datetime.now() + timedelta(hours=ttl_hours)`,
\* Python's now() being the host's local time
expires_from(t, offset) == (t + offset) + TtlHours

\* cache.py:173-178 at hour t (UTC, SQLite's datetime('now')): INSERT OR
\* REPLACE of the row, with the expires_at that Python computed
set_llm_response(rows, prompt, response, model, expires_at, t) ==
    LET h == request_hash(model, prompt)
    IN  [g \in DOMAIN rows \cup {h} |->
            IF g = h THEN [response |-> response, cached_at |-> t,
                           expires_at |-> expires_at]
            ELSE rows[g]]

\* api.py:921 `if cached_response:`: None and the empty text are falsy
is_truthy(text) == text # None /\ text # EmptyText

InitCache ==
    /\ RunIdle
    /\ NormalizeIdle
    /\ CacheIdle

\* api.py:917-946 for one call, with get_cache() returning a cache (enabled)
\* or None
Resolve(model, prompt, enabled) ==
    /\ request' = <<model, prompt>>
    /\ cache_on' = enabled
    /\ IF enabled /\ is_truthy(get_llm_response(llm_cache, prompt, model, now))
       THEN /\ result_text' = get_llm_response(llm_cache, prompt, model, now)
            /\ invoked' = FALSE
            /\ UNCHANGED llm_cache
       ELSE \E text \in CacheResponses :
              /\ result_text' = text
              /\ invoked' = TRUE
              /\ llm_cache' = IF enabled
                               THEN set_llm_response(llm_cache, prompt, text,
                                        model, expires_from(now, utc_offset), now)
                               ELSE llm_cache
    /\ UNCHANGED <<run_vars, normalize_vars, now, store_vars, action_plan, element, environ,
                   generating>>

ResolveAny ==
    \E model \in Models, prompt \in CachePrompts, enabled \in BOOLEAN :
        Resolve(model, prompt, enabled)

\* an hour passes
Tick ==
    /\ now < MaxClock
    /\ now' = now + 1
    /\ UNCHANGED <<run_vars, result_text, normalize_vars, llm_cache, request,
                   cache_on, invoked, store_vars, action_plan, element, environ,
                   generating>>

NextCache ==
    \/ ResolveAny
    \/ Tick

SpecCache == InitCache /\ [][NextCache]_vars

(***************************************************************************)
(* The html_cache and popup_cache tables (cache.py:75-123 and 198-246).    *)
(* A get selects the row whose expires_at is later than SQLite's           *)
(* datetime('now'), which is UTC; a set is one INSERT OR REPLACE, with     *)
(* cached_at from SQLite's clock and expires_at from Python's.             *)
(***************************************************************************)
Urls == {"https://a.example/", "https://b.example/"}

Htmls == {"<html>A</html>", "<html>B</html>"}

\* the popups extracted in the cache's specifications: the first two differ
\* in an id only
ExtractMarkups ==
    { <<Element("button", "Continue", Absent, Absent, "b1")>>,
      <<Element("button", "Continue", Absent, Absent, "b4")>>,
      <<Element("button", "Cancel", Absent, Absent, "b7")>> }

\* the hours the host's local time can be ahead of UTC
Offsets == {0 - 1, 0, 1}

\* cache.py:85-101 at hour t
get_html(rows, url, t) ==
    IF url \in DOMAIN rows /\ rows[url].expires_at > t
    THEN rows[url].html ELSE NoneStr

\* cache.py:116-119 at hour t, overwriting the whole table
set_html_only_row(rows, url, html, expires_at, t) ==
    [g \in {url} |-> [html |-> html, cached_at |-> t, expires_at |-> expires_at]]

\* cache.py:116-121 at hour t
set_html(rows, url, html, expires_at, t) ==
    [g \in DOMAIN rows \cup {url} |->
        IF g = url THEN [html |-> html, cached_at |-> t, expires_at |-> expires_at]
        ELSE rows[g]]

\* cache.py:208-224 at hour t
get_popup_html(rows, key, t) ==
    IF key \in DOMAIN rows /\ rows[key].expires_at > t
    THEN rows[key].html ELSE NoneStr

\* cache.py:239-244 at hour t
set_popup_html(rows, key, html, expires_at, t) ==
    [g \in DOMAIN rows \cup {key} |->
        IF g = key THEN [html |-> html, cached_at |-> t, expires_at |-> expires_at]
        ELSE rows[g]]

(***************************************************************************)
(* Concurrent runs writing to the one database.  Each set_... call opens   *)
(* its own connection, computes expires_at in Python, then runs the        *)
(* INSERT OR REPLACE and commits (cache.py:111-122, 168-179, 234-245);     *)
(* SQLite serializes the writers, so the statement takes effect at once,   *)
(* or fails on a locked database while another writer is at its own.       *)
(***************************************************************************)
\* connect, and `expires_at = datetime.now() + timedelta(...)`
BeginWrite(w, table, key, value) ==
    /\ writers[w].pc = "idle"
    /\ writers' = [writers EXCEPT ![w] =
                      [pc |-> "insert", table |-> table, key |-> key,
                       value |-> value,
                       expires_at |-> expires_from(now, utc_offset)]]
    /\ UNCHANGED <<run_vars, result_text, normalize_vars, cache_vars,
                   html_cache, popup_cache, utc_offset, action_plan, element, environ,
                   generating>>

BeginWriteAny ==
    \E w \in Writers :
        \/ \E url \in Urls, html \in Htmls : BeginWrite(w, "html", url, html)
        \/ \E model \in Models, text \in CacheResponses \ {EmptyText} :
              BeginWrite(w, "llm",
                         request_hash(model, "Click Learn More"), text)
        \/ \E m \in ExtractMarkups :
              BeginWrite(w, "popup", normalized(m), RenderAll(m))

\* execute and commit, then close
InsertRow(w) ==
    /\ writers[w].pc = "insert"
    /\ writers' = [writers EXCEPT ![w] = NoWrite]
    /\ \E locked \in {FALSE} \cup {\E v \in Writers \ {w} : writers[v].pc = "insert"} :
         LET write == writers[w] IN
         IF locked THEN UNCHANGED <<html_cache, llm_cache, popup_cache>>
         ELSE /\ html_cache' =
                    IF write.table = "html"
                    THEN set_html(html_cache, write.key, write.value,
                                  write.expires_at, now)
                    ELSE html_cache
              /\ llm_cache' =
                    IF write.table = "llm"
                    THEN [g \in DOMAIN llm_cache \cup {write.key} |->
                            IF g = write.key
                            THEN [response |-> write.value, cached_at |-> now,
                                  expires_at |-> write.expires_at]
                            ELSE llm_cache[g]]
                    ELSE llm_cache
              /\ popup_cache' =
                    IF write.table = "popup"
                    THEN set_popup_html(popup_cache, write.key, write.value,
                                        write.expires_at, now)
                    ELSE popup_cache
    /\ UNCHANGED <<run_vars, result_text, normalize_vars, now, request,
                   cache_on, invoked, utc_offset, action_plan, element, environ,
                   generating>>

InsertRowAny == \E w \in Writers : InsertRow(w)

NextWriters ==
    \/ BeginWriteAny
    \/ InsertRowAny

SpecWriters == InitCache /\ [][NextWriters]_vars

(***************************************************************************)
(* One run writing and the clock moving, on a host of any clock setting.   *)
(***************************************************************************)
InitExpiry ==
    /\ RunIdle
    /\ NormalizeIdle
    /\ StoreEmpty
    /\ utc_offset \in Offsets

\* cache.py:103-123
SetHtml ==
    /\ \E html \in Htmls :
         html_cache' = set_html(html_cache, "https://a.example/", html,
                                expires_from(now, utc_offset), now)
    /\ UNCHANGED <<run_vars, result_text, normalize_vars, cache_vars,
                   popup_cache, utc_offset, writers, action_plan, element, environ,
                   generating>>

\* cache.py:157-180
SetLlmResponse ==
    /\ \E text \in CacheResponses :
         llm_cache' = set_llm_response(llm_cache, "Click Learn More", text,
                         "gpt-4o", expires_from(now, utc_offset), now)
    /\ UNCHANGED <<run_vars, result_text, normalize_vars, now, request,
                   cache_on, invoked, store_vars, action_plan, element, environ,
                   generating>>

\* cache.py:226-246
SetPopupHtml ==
    /\ \E m \in ExtractMarkups :
         popup_cache' = set_popup_html(popup_cache, normalized(m), RenderAll(m),
                                       expires_from(now, utc_offset), now)
    /\ UNCHANGED <<run_vars, result_text, normalize_vars, cache_vars,
                   html_cache, utc_offset, writers, action_plan, element, environ,
                   generating>>

NextExpiry ==
    \/ SetHtml
    \/ SetLlmResponse
    \/ SetPopupHtml
    \/ Tick

SpecExpiry == InitExpiry /\ [][NextExpiry]_vars

\* the rows a DELETE ... WHERE expires_at <= datetime('now') leaves at hour t
unexpired(rows, t) ==
    [g \in {h \in DOMAIN rows : rows[h].expires_at > t} |-> rows[g]]

\* SELECT COUNT(*) ... WHERE expires_at <= datetime('now') at hour t
expired_count(rows, t) ==
    Cardinality({h \in DOMAIN rows : rows[h].expires_at <= t})

\* cache.py:262-295 at hour t
stats(html, llm, popup, t) ==
    [html_entries  |-> Cardinality(DOMAIN html),
     html_expired  |-> expired_count(html, t),
     llm_entries   |-> Cardinality(DOMAIN llm),
     llm_expired   |-> expired_count(llm, t),
     popup_entries |-> Cardinality(DOMAIN popup),
     popup_expired |-> expired_count(popup, t),
     ttl_hours     |-> TtlHours]

\* cache.py:182-196: the two DELETEs and the commit
ClearExpired ==
    /\ html_cache' = unexpired(html_cache, now)
    /\ llm_cache' = unexpired(llm_cache, now)
    /\ UNCHANGED <<run_vars, result_text, normalize_vars, now, request,
                   cache_on, invoked, popup_cache, utc_offset, writers,
                   action_plan, element, environ, generating>>

NextClear ==
    \/ SetHtml
    \/ SetLlmResponse
    \/ SetPopupHtml
    \/ Tick
    \/ ClearExpired

SpecClear == InitExpiry /\ [][NextClear]_vars

(***************************************************************************)
(* PlaywrightAgent.execute_action_plan (playwright_agent.py:47-128): the   *)
(* plan executor of the batch pipeline.  An item is a dictionary; a key it *)
(* does not have reads as None (NULL).                                     *)
(***************************************************************************)
PlanItems ==
    { [action |-> "hover", selector |-> "#menu"],
      [action |-> "click", selector |-> "#learn-more-btn"],
      [action |-> "type",  selector |-> "#search"],
      [action |-> NULL,    selector |-> NULL] }

Plans == UNION {[1..n -> PlanItems] : n \in 0..MaxPlan}

\* playwright_agent.py:84-90 and 116: the entry of one item
PlanEntry(item, ok) ==
    [action |-> item.action, selector |-> item.selector, success |-> ok]

InitPlan ==
    /\ RunIdle
    /\ NormalizeIdle
    /\ CacheIdle

\* execute_action_plan is called: `results` as built at lines 66-72
CallPlan ==
    /\ pc = "idle"
    /\ \E plan \in Plans : action_plan' = plan
    /\ pc' = "plan_start"
    /\ UNCHANGED <<steps, i, actions_executed, errors, playwright, browser,
                   context, page, current_html, action, use_text, target, k,
                   clicked, attempts, last_pass, calls, raised, result, instructions,
                   result_text, normalize_vars, cache_vars, store_vars,
                   element, environ,
                   generating>>

\* playwright_agent.py:121-123: the outer handler, then the `finally`
PlanFatal(where) ==
    /\ raised' = Raise(where, 0)
    /\ errors' = Append(errors, Error("Fatal error during execution", 0))
    /\ pc' = "plan_close"

\* playwright_agent.py:75 and 27-36
StartBrowser ==
    /\ pc = "plan_start"
    /\ \E outcome \in {"ok", "launch_raises", "goto_raises"} :
         /\ playwright' = "started"
         /\ browser' = IF outcome = "launch_raises" THEN "none" ELSE "open"
         /\ context' = IF outcome = "launch_raises" THEN "none" ELSE "open"
         /\ IF outcome = "ok"
            THEN /\ pc' = "plan_loop"
                 /\ UNCHANGED <<errors, raised>>
            ELSE PlanFatal("start_browser")
    /\ UNCHANGED <<steps, i, actions_executed, page, current_html, action,
                   use_text, target, k, clicked, attempts, last_pass, calls, result,
                   instructions, result_text, normalize_vars, cache_vars,
                   store_vars, action_plan, element, environ,
                   generating>>

\* playwright_agent.py:111-114: an exception of the item's action is caught
\* inside the loop body
item_raise_escapes == "plan_close"

item_raise_caught == "plan_loop"

\* what the helper called for a hover or a click comes to: it returns its
\* result dictionary, with success true or false, or raises
HelperOutcomes == {"success", "failure", "raises"}

\* playwright_agent.py:77-116: the loop body for one item
ExecutePlanItem ==
    /\ pc = "plan_loop"
    /\ i <= Len(action_plan)
    /\ LET item == action_plan[i] IN
         IF item.action \in {"hover", "click"}
         THEN \E outcome \in HelperOutcomes :
                IF outcome = "raises"
                THEN /\ raised' = Raise("plan_action", i)
                     /\ errors' = Append(errors, Error("Error executing", i))
                     /\ pc' = item_raise_caught
                     /\ actions_executed' =
                           IF pc' = "plan_loop"
                           THEN Append(actions_executed, PlanEntry(item, FALSE))
                           ELSE actions_executed
                ELSE /\ actions_executed' =
                           Append(actions_executed,
                                  PlanEntry(item, outcome = "success"))
                     /\ UNCHANGED <<pc, errors, raised>>
         ELSE /\ errors' = Append(errors, Error("Unknown action", i))
              /\ actions_executed' =
                    Append(actions_executed, PlanEntry(item, FALSE))
              /\ UNCHANGED <<pc, raised>>
    /\ i' = i + 1
    /\ UNCHANGED <<steps, playwright, browser, context, page, current_html,
                   action, use_text, target, k, clicked, attempts, last_pass, calls,
                   result, instructions, result_text, normalize_vars,
                   cache_vars, store_vars, action_plan, element, environ,
                   generating>>

\* playwright_agent.py:119: the loop is over, the final url is read
FinishPlan ==
    /\ pc = "plan_loop"
    /\ i > Len(action_plan)
    /\ \/ /\ pc' = "plan_close"
          /\ UNCHANGED <<errors, raised>>
       \/ PlanFatal("page.url")
    /\ UNCHANGED <<steps, i, actions_executed, playwright, browser, context,
                   page, current_html, action, use_text, target, k, clicked,
                   attempts, last_pass, calls, result, instructions, result_text,
                   normalize_vars, cache_vars, store_vars, action_plan, element, environ,
                   generating>>

\* playwright_agent.py:125-128 and 38-45: the `finally`, then the return;
\* an exception of close_browser leaves the function
CloseBrowser ==
    /\ pc = "plan_close"
    /\ pc' = "plan_done"
    /\ \/ /\ context' = IF context = "open" THEN "closed" ELSE context
          /\ browser' = IF browser = "open" THEN "closed" ELSE browser
          /\ playwright' = "stopped"
          /\ result' = "returned"
          /\ UNCHANGED raised
       \/ /\ context # "none"
          /\ raised' = Raise("close_browser", 0)
          /\ result' = "raised"
          /\ UNCHANGED <<context, browser, playwright>>
    /\ UNCHANGED <<steps, i, actions_executed, errors, page, current_html,
                   action, use_text, target, k, clicked, attempts, last_pass, calls,
                   instructions, result_text, normalize_vars, cache_vars,
                   store_vars, action_plan, element, environ,
                   generating>>

NextPlan ==
    \/ CallPlan
    \/ StartBrowser
    \/ ExecutePlanItem
    \/ FinishPlan
    \/ CloseBrowser

SpecPlan == InitPlan /\ [][NextPlan]_vars

(***************************************************************************)
(* The two probes of the page on one page state.  A page state is the set  *)
(* of extract_popup_html's patterns with a visible match; an element that  *)
(* matches `.modal` matches `[class*='modal']` too, and so on.             *)
(***************************************************************************)
Implied ==
    { <<".modal.show:visible", ".modal:visible">>,
      <<".modal:visible", "[class*='modal']:visible">>,
      <<".modal-dialog:visible", "[class*='modal']:visible">>,
      <<".modal-dialog:visible", "[class*='dialog']:visible">>,
      <<".popup:visible", "[class*='popup']:visible">> }

ProbePages ==
    {p \in SUBSET Range(ExtractPopupSelectors) :
        \A pair \in Implied : pair[1] \in p => pair[2] \in p}

InitProbe ==
    /\ NoRun
    /\ page \in ProbePages
    /\ NormalizeIdle
    /\ CacheIdle

\* api.py:423-454: extract_popup_html(page, use_cache=False) is called
ProbePage ==
    /\ pc = "idle"
    /\ current_html' = extract_popup_html(page)
    /\ pc' = "probed"
    /\ UNCHANGED <<steps, i, actions_executed, errors, playwright, browser,
                   context, page, action, use_text, target, k, clicked,
                   attempts, last_pass, calls, raised, result, instructions, result_text,
                   normalize_vars, cache_vars, store_vars, action_plan, element, environ,
                   generating>>

SpecProbe == InitProbe /\ [][ProbePage]_vars

(***************************************************************************)
(* extract_popup_html with the popup cache (api.py:423-454): the markup of *)
(* the first visible modal is read, and with a cache at hand it is looked  *)
(* up by its structure key.  The markup read is popup_html, its text       *)
(* RenderAll(popup_html); what the call returns is current_html.           *)
(***************************************************************************)
\* api.py:446 `if cached_html:`: None and the empty text are falsy
is_cached(html) == html # NoneStr /\ html # ""

ExtractPopupHtml ==
    /\ pc \in {"idle", "extracted"}
    /\ pc' = "extracted"
    /\ \E p \in PageStates : page' = p
    /\ IF extract_popup_html(page') = ""
       THEN /\ current_html' = ""
            /\ UNCHANGED <<popup_html, structure_key, popup_cache>>
       ELSE \E m \in ExtractMarkups, enabled \in BOOLEAN, raises \in BOOLEAN :
              LET key == normalize_popup_html_for_cache(m, raises)
                  cached_html == get_popup_html(popup_cache, key, now)
              IN  /\ popup_html' = m
                  /\ IF ~enabled
                     THEN /\ current_html' = RenderAll(m)
                          /\ UNCHANGED <<structure_key, popup_cache>>
                     ELSE /\ structure_key' = key
                          /\ IF is_cached(cached_html)
                             THEN /\ current_html' = cached_html
                                  /\ UNCHANGED popup_cache
                             ELSE /\ popup_cache' =
                                        set_popup_html(popup_cache, key,
                                            RenderAll(m),
                                            expires_from(now, utc_offset), now)
                                  /\ current_html' = RenderAll(m)
    /\ UNCHANGED <<steps, i, actions_executed, errors, playwright, browser,
                   context, action, use_text, target, k, clicked, attempts, last_pass,
                   calls, raised, result, instructions, result_text,
                   cache_vars, html_cache, utc_offset, writers, action_plan, element, environ,
                   generating>>

NextExtract ==
    \/ ExtractPopupHtml
    \/ Tick

SpecExtract == InitCache /\ [][NextExtract]_vars

(***************************************************************************)
(* The cache key of a popup step (api.py:909-915) and the resolves made    *)
(* under it (api.py:917-934).                                              *)
(***************************************************************************)
\* the characters matched by \s
RegexSpace == {" ", "\t", "\n", "\r", "\f"}

MatchAt(s, p, w) ==
    p + Len(w) - 1 <= Len(s) /\ SubSeq(s, p, p + Len(w) - 1) = w

\* where the run of whitespace that starts at p ends: p itself when there
\* is none
RECURSIVE skip_spaces(_, _)
skip_spaces(s, p) ==
    IF p <= Len(s) /\ SubSeq(s, p, p) \in RegexSpace
    THEN skip_spaces(s, p + 1) ELSE p

\* the alternatives of group 1 at api.py:913, in the order they are tried;
\* the seventh is learn\s+more
ButtonAlternatives ==
    <<"cancel", "close", "continue", "confirm", "ok", "dismiss", "learn",
      "submit", "yes", "no">>

\* where alternative n ends when it matches at q, 0 when it does not
alternative_end(s, q, n) ==
    IF ~MatchAt(s, q, ButtonAlternatives[n]) THEN 0
    ELSE IF ButtonAlternatives[n] # "learn"
    THEN q + Len(ButtonAlternatives[n])
    ELSE IF skip_spaces(s, q + 5) > q + 5
             /\ MatchAt(s, skip_spaces(s, q + 5), "more")
    THEN skip_spaces(s, q + 5) + 4
    ELSE 0

\* group 1 when it is matched at q, "" when no alternative matches there
group_at(s, q) ==
    LET ns == {n \in DOMAIN ButtonAlternatives : alternative_end(s, q, n) > 0}
    IN  IF ns = {} THEN ""
        ELSE SubSeq(s, q, alternative_end(s, q, Min(ns)) - 1)

\* group 1 of a match of the pattern that starts at p, "" when none does:
\* the verb, \s+, then `the\s+` when what follows it matches and nothing
\* otherwise
match_from(s, p) ==
    LET verbs == {w \in ActionWords : MatchAt(s, p, w)}
    IN  IF verbs = {} THEN ""
        ELSE LET a == p + Len(CHOOSE w \in verbs : TRUE)
                 q == skip_spaces(s, a)
                 t == skip_spaces(s, q + 3)
             IN  IF q = a THEN ""
                 ELSE IF MatchAt(s, q, "the") /\ t > q + 3
                         /\ group_at(s, t) # ""
                 THEN group_at(s, t)
                 ELSE group_at(s, q)

\* api.py:913-914: re.search on step.lower(), the leftmost match
button_name(step) ==
    LET s == lower(step)
        ps == {p \in 1..Len(s) : match_from(s, p) # ""}
    IN  IF ps = {} THEN "unknown" ELSE match_from(s, Min(ps))

\* str(n)
RECURSIVE str_int(_)
str_int(n) ==
    IF n < 10 THEN SubSeq("0123456789", n + 1, n + 1)
    ELSE str_int(n \div 10) \o SubSeq("0123456789", (n % 10) + 1, (n % 10) + 1)

\* json.dumps(normalized, sort_keys=True) at api.py:761
dumps_attr(name, value) ==
    IF value = Absent THEN "" ELSE "\"" \o name \o "\": \"" \o value \o "\""

dumps_attrs(attrs) ==
    "{" \o dumps_attr("role", attrs.role)
        \o (IF attrs.role # Absent /\ attrs.type # Absent THEN ", " ELSE "")
        \o dumps_attr("type", attrs.type) \o "}"

dumps_button(b) ==
    "{\"attrs\": " \o dumps_attrs(b.attrs) \o ", \"tag\": \"" \o b.tag
        \o "\", \"text\": \"" \o b.text \o "\"}"

RECURSIVE dumps_buttons(_)
dumps_buttons(buttons) ==
    IF buttons = <<>> THEN ""
    ELSE IF Len(buttons) = 1 THEN dumps_button(buttons[1])
    ELSE dumps_button(Head(buttons)) \o ", " \o dumps_buttons(Tail(buttons))

dumps(key) ==
    "{\"buttons\": [" \o dumps_buttons(key.buttons) \o "], \"html_length\": "
        \o str_int(key.html_length) \o "}"

\* api.py:778-780: None (here "") when current_html is empty
normalized_structure(html) ==
    IF html = <<>> THEN "" ELSE dumps(normalized(html))

\* api.py:909-915 for a popup step
cache_key_prompt(step, structure) ==
    "popup:" \o (IF structure # "" THEN "visible" ELSE "hidden")
        \o "||button:" \o button_name(step)
        \o "||structure:" \o (IF structure # "" THEN structure ELSE "none")

\* popup steps, each with the action and the target it names
KeyStep(text, kind, names) == [text |-> text, action |-> kind, target |-> names]

KeySteps ==
    { KeyStep("Click the Cancel button", "click", "Cancel"),
      KeyStep("Click  the  Close icon", "click", "Close"),
      KeyStep("Click the Save button in the dialog", "click", "Save"),
      KeyStep("Click the Delete button in the dialog", "click", "Delete"),
      KeyStep("Hover over the Cancel button", "hover", "Cancel"),
      KeyStep("Click No in the dialog", "click", "No"),
      KeyStep("Click the Notify me link in the popup", "click", "Notify me") }

\* the popup the steps are resolved on
KeyMarkups ==
    { <<Element("button", "Save", "submit", Absent, "s1"),
        Element("button", "Delete", Absent, Absent, "d1"),
        Element("a", "Notify me", Absent, "button", "n1"),
        Element("button", "No", Absent, Absent, "n2"),
        Element("button", "Cancel", Absent, Absent, "c1")>> }

\* the key of each step on each markup, computed once
KeyPrompt ==
    [st \in KeySteps |->
        [m \in KeyMarkups |-> cache_key_prompt(st.text, normalized_structure(m))]]

\* the output of a model that answers the step it is asked
ModelAnswer(st) == RawText(FALSE, JsonObject(st.action, st.target, TRUE))

\* api.py:778-780 and 909-934 for a popup step, the cache enabled
ResolvePopupStep ==
    \E st \in KeySteps, m \in KeyMarkups, model \in {"gpt-4o"} :
        LET prompt == KeyPrompt[st][m]
            cached == get_llm_response(llm_cache, prompt, model, now)
        IN  /\ Classify[st.text].popup
            /\ steps' = <<st.text>>
            /\ current_html' = RenderAll(m)
            /\ request' = <<model, prompt>>
            /\ cache_on' = TRUE
            /\ IF is_truthy(cached)
               THEN /\ result_text' = cached
                    /\ invoked' = FALSE
                    /\ UNCHANGED llm_cache
               ELSE /\ result_text' = ModelAnswer(st)
                    /\ invoked' = TRUE
                    /\ llm_cache' = set_llm_response(llm_cache, prompt,
                                        ModelAnswer(st), model,
                                        expires_from(now, utc_offset), now)
            /\ UNCHANGED <<pc, i, actions_executed, errors, playwright,
                           browser, context, page, action, use_text, target,
                           k, clicked, attempts, last_pass, calls, raised,
                           result, instructions, normalize_vars, now,
                           store_vars, action_plan, element, environ,
                   generating>>

NextKey ==
    \/ ResolvePopupStep
    \/ Tick

SpecKey == InitCache /\ [][NextKey]_vars

(***************************************************************************)
(* POST /api/generate (api.py:150-193) and get_cache (cache.py:303-330):   *)
(* the ENABLE_CACHE variable of the process, shared by the requests.       *)
(***************************************************************************)
\* what ENABLE_CACHE may be when the server starts
EnvValues == {NoneStr, "", "true", "false", "YES", "0"}

\* cache.py:319 `os.getenv("ENABLE_CACHE", "true").lower() in (...)`
cache_enabled(env) ==
    lower(IF env = NoneStr THEN "true" ELSE env) \in {"true", "1", "yes"}

\* api.py:192 `and old_cache_setting`: None and "" are falsy
restores(old) == old # NoneStr /\ old # ""

\* api.py:151-186: the request arrives; without a model, `os` (a local of
\* generate because of the import at api.py:184) is read unbound at
\* api.py:169 and the handler at the end of generate answers
GenerateBegin(r, use_cache, has_model) ==
    /\ generating[r].pc = "idle"
    /\ IF ~has_model
       THEN /\ generating' = [generating EXCEPT ![r].pc = "failed",
                                                ![r].use_cache = use_cache]
            /\ UNCHANGED environ
       ELSE /\ generating' =
                  [generating EXCEPT
                      ![r] = [pc |-> "load_html", use_cache |-> use_cache,
                              old_cache_setting |->
                                  IF use_cache THEN NoneStr ELSE environ]]
            /\ environ' = IF use_cache THEN environ ELSE "false"
    /\ UNCHANGED <<run_vars, result_text, normalize_vars, cache_vars,
                   store_vars, action_plan, element>>

Generate ==
    \E r \in Requests, use_cache \in BOOLEAN, has_model \in BOOLEAN :
        GenerateBegin(r, use_cache, has_model)

\* api.py:188-193: load_html returns, or raises and leaves the `try`
LoadHtml(r) ==
    /\ generating[r].pc = "load_html"
    /\ \E raises \in BOOLEAN :
         IF raises
         THEN /\ generating' = [generating EXCEPT ![r].pc = "failed"]
              /\ UNCHANGED environ
         ELSE /\ generating' = [generating EXCEPT ![r].pc = "execute"]
              /\ environ' =
                    IF ~generating[r].use_cache
                          /\ restores(generating[r].old_cache_setting)
                    THEN generating[r].old_cache_setting ELSE environ
    /\ UNCHANGED <<run_vars, result_text, normalize_vars, cache_vars,
                   store_vars, action_plan, element>>

LoadHtmlAny == \E r \in Requests : LoadHtml(r)

\* api.py:200-235: the rest of the request, get_cache() being called by the
\* resolver on the way (api.py:917)
GenerateEnd(r) ==
    /\ generating[r].pc = "execute"
    /\ generating' = [generating EXCEPT ![r].pc = "done"]
    /\ cache_on' = cache_enabled(environ)
    /\ UNCHANGED <<run_vars, result_text, normalize_vars, llm_cache, now,
                   request, invoked, store_vars, action_plan, element,
                   environ>>

GenerateEndAny == \E r \in Requests : GenerateEnd(r)

InitEnv ==
    /\ NoRunUnderWay
    /\ page = {}
    /\ NormalizeIdle
    /\ CacheIdle
    /\ environ \in EnvValues
    /\ generating = [r \in Requests |-> NoRequest]

NextEnv ==
    \/ Generate
    \/ LoadHtmlAny
    \/ GenerateEndAny

SpecEnv == InitEnv /\ [][NextEnv]_vars

\* one-step runs in which the click target stays in one state
InitClick ==
    /\ InitWith([1..1 -> StepPool])
    /\ element \in ElementStates

NextClick ==
    \/ StartSession
    \/ ObservationStep
    \/ PopupPrecheck
    \/ OrdinaryStep
    \/ CaptureHtml
    \/ ResolveAction
    \/ ParseResponse
    \/ ExecuteClick
    \/ ClickStrategy({element})
    \/ ClickReturn
    \/ ExecuteHover
    \/ ExecuteOther
    \/ Finish

SpecClick == InitClick /\ [][NextClick]_vars

SpecClassify == InitClassify /\ [][Next]_vars

\* the runs under the condition that every await completes or times out:
\* a run that can take a step takes one
\* the step that leaves "start": StartSession, which is enabled whenever
\* pc = "start" and is the only action that is
SessionStarted == pc = "start" /\ pc' \in {"loop", "done"}

Fairness ==
    /\ WF_pc(SessionStarted)
    /\ WF_vars(ObservationStep)
    /\ WF_vars(PopupPrecheck)
    /\ WF_vars(OrdinaryStep)
    /\ WF_vars(CaptureHtml)
    /\ WF_vars(ResolveAction)
    /\ WF_vars(ParseResponse)
    /\ WF_vars(ExecuteClick)
    /\ WF_vars(ClickStrategy(ElementStates))
    /\ WF_vars(ClickReturn)
    /\ WF_vars(ExecuteHover)
    /\ WF_vars(ExecuteOther)
    /\ WF_vars(Finish)

\* the runs of every one-step script and of the four-step scenario
InitLive == InitOn([1..1 -> StepPool] \cup {ScenarioLines})

SpecLive == InitLive /\ [][Next]_vars /\ Fairness

\* the session start alone, which parses the scenario text
SpecParse == InitParse /\ [][StartSession]_vars

\* runs of the four-step scenario
SpecScenario == InitScenario /\ [][Next]_vars

(***************************************************************************)
(* Vocabulary of the properties.                                           *)
(***************************************************************************)
StepIndexes == 1..Len(steps)

Stopped(n) == \E j \in DOMAIN errors : errors[j] = Error("STOPPED at step", n)

Halted == \E n \in StepIndexes : Stopped(n)

FatalEntries == {j \in DOMAIN errors : errors[j].kind = "Fatal error"}

OutcomesOf(n) == {j \in DOMAIN actions_executed : actions_executed[j].idx = n}

RaisedAt(wheres, n) == \E r \in raised : r.where \in wheres /\ r.step = n

\* exceptions raised into the step loop by the call executing the action
ActionCallRaises == {"execute_click_action", "execute_hover_action"}

\* exceptions raised by the mechanism an executor invoked
MechanismRaises == {"click_mechanism", "hover_mechanism"}

\* exceptions no step-level handler catches
EscapingRaises == {"launch", "goto", "close"} \cup ResolverRaises

\* exceptions raised inside the body of the step loop
StepLoopRaises == {"page.content", "execute_click_action",
                   "execute_hover_action"} \cup ResolverRaises

(***************************************************************************)
(* C1: when the call executing step N's action raises into the step loop,  *)
(* step N gets an outcome with success = false, errors gets a "STOPPED at  *)
(* step N" entry, and no step after N is classified, resolved or executed. *)
(***************************************************************************)
C1_HaltOnActionException ==
    \A n \in StepIndexes :
        RaisedAt(ActionCallRaises, n) =>
            /\ \E j \in OutcomesOf(n) : ~actions_executed[j].success
            /\ Stopped(n)
            /\ i = n
            /\ pc \in {"finish", "done"}
            /\ \A m \in StepIndexes : m > n => OutcomesOf(m) = {} /\ calls[m] = {}

C1_Witness ==
    /\ pc = "done"
    /\ \E n \in StepIndexes : n < Len(steps) /\ RaisedAt(ActionCallRaises, n)

(***************************************************************************)
(* C2: a mechanism (the click mechanism of the strategy tried, the hover   *)
(* call) that raises for step N halts the run: once step N is over, errors *)
(* holds "STOPPED at step N" and no later step is processed.               *)
(***************************************************************************)
C2_MechanismRaiseHalts ==
    \A n \in StepIndexes :
        (RaisedAt(MechanismRaises, n) /\ OutcomesOf(n) # {}) =>
            /\ Stopped(n)
            /\ i = n

(***************************************************************************)
(* C3, as stated: every exception raised at startup or inside the step     *)
(* loop ends in a returned result with exactly one "Fatal error" entry.    *)
(***************************************************************************)
C3_EveryExceptionIsFatalEntry ==
    (pc = "done" /\ \E r \in raised : r.where \in {"launch", "goto"} \cup StepLoopRaises)
        => (result = "returned" /\ Cardinality(FatalEntries) = 1)

(***************************************************************************)
(* C3, amended: the run always returns its result dictionary; an exception *)
(* raised at startup, or one that escapes the step loop (no step-level     *)
(* handler catches it), leaves every outcome appended before it in place   *)
(* and adds exactly one errors entry, "Fatal error".                       *)
(***************************************************************************)
C3_EscapingExceptionReturnsPartial ==
    /\ [](pc = "done" => result = "returned")
    /\ []((\E r \in raised : r.where \in EscapingRaises)
            => (pc = "done" /\ Cardinality(FatalEntries) = 1
                /\ errors[Len(errors)].kind = "Fatal error"))
    /\ []((~\E r \in raised : r.where \in EscapingRaises) => FatalEntries = {})
    /\ [][(\E r \in raised' \ raised : r.where \in EscapingRaises)
            => /\ actions_executed' = actions_executed
               /\ \E n \in 0..Len(steps) :
                     errors' = Append(errors, Error("Fatal error", n))
               /\ result' = "returned"]_vars

C3_Witness ==
    /\ pc = "done"
    /\ actions_executed # <<>>
    /\ \E r \in raised : r.where \in ResolverRaises /\ r.step > 1

(***************************************************************************)
(* C4: no run returns with its browser or browser context still open.      *)
(***************************************************************************)
C4_SessionClosedOnReturn ==
    pc = "done" => (browser # "open" /\ context # "open" /\ playwright = "stopped")

C4_Witness ==
    /\ pc = "done"
    /\ browser = "closed"
    /\ Halted
    /\ \E r \in raised : r.where = "close"

(***************************************************************************)
(* C5, as stated: in a halted run the step texts of actions_executed are   *)
(* the first kk parsed steps for some kk smaller than the number of steps. *)
(***************************************************************************)
C5_HaltedIsStrictPrefix ==
    (Halted /\ pc = "done") =>
        \E kk \in 0..(Len(steps) - 1) :
            /\ Len(actions_executed) = kk
            /\ \A j \in 1..kk : actions_executed[j].step = steps[j]

(***************************************************************************)
(* C5, amended: in a run halted at step N the outcomes are those of steps  *)
(* 1..N only, in step order, at most one per step, the last one being      *)
(* step N's; no step after N appears (the texts are all of the parsed      *)
(* steps when N is the last step).                                         *)
(***************************************************************************)
C5_HaltedOutcomesEndAtN ==
    \A n \in StepIndexes :
        Stopped(n) =>
            /\ actions_executed # <<>>
            /\ actions_executed[Len(actions_executed)].idx = n
            /\ \A j \in DOMAIN actions_executed :
                  /\ actions_executed[j].idx \in 1..n
                  /\ actions_executed[j].step = steps[actions_executed[j].idx]
                  /\ \A h \in DOMAIN actions_executed :
                        h < j => actions_executed[h].idx < actions_executed[j].idx

C5_Witness ==
    /\ pc = "done"
    /\ Stopped(Len(steps))
    /\ Len(actions_executed) = Len(steps)
    /\ Len(steps) > 1

(***************************************************************************)
(* C6: a run that neither halts nor fails fatally ends with exactly one    *)
(* outcome per parsed step, in step order.                                 *)
(***************************************************************************)
C6_OneOutcomePerStep ==
    (pc = "done" /\ ~Halted /\ FatalEntries = {}) =>
        /\ Len(actions_executed) = Len(steps)
        /\ \A j \in DOMAIN actions_executed : actions_executed[j].idx = j

(***************************************************************************)
(* C7: a popup button step that is not pure observation and finds no       *)
(* popup visible is recorded as action "skip" with success = true, and the *)
(* model, click and hover are never invoked for it.                        *)
(***************************************************************************)
C7_PopupPrecheckSkip ==
    /\ [][(/\ pc = "loop"
           /\ i <= Len(steps)
           /\ Classify[steps[i]].button
           /\ ~Classify[steps[i]].pure
           /\ ~is_popup_visible(page'))
            => /\ actions_executed' = Append(actions_executed,
                     [idx |-> i, step |-> steps[i], action |-> "skip",
                      success |-> TRUE])
               /\ i' = i + 1
               /\ pc' = "loop"
               /\ calls'[i] = {"is_popup_visible"}]_vars
    /\ [](\A j \in DOMAIN actions_executed :
            actions_executed[j].action = "skip" =>
                /\ actions_executed[j].success
                /\ calls[actions_executed[j].idx] \cap {"resolver", "click", "hover"} = {})

C7_Witness ==
    \E j \in DOMAIN actions_executed :
        /\ actions_executed[j].action = "skip"
        /\ actions_executed[j].step = "Click the Cancel button"
        /\ calls[actions_executed[j].idx] = {"is_popup_visible"}
        /\ i > actions_executed[j].idx + 1

(***************************************************************************)
(* C8: a pure observation step gets a success outcome with action          *)
(* "observation" and nothing is called for it, popup visible or not,       *)
(* popup button keyword in the text or not.                                *)
(***************************************************************************)
C8_ObservationNoCalls ==
    \A n \in StepIndexes :
        Classify[steps[n]].pure =>
            /\ calls[n] = {}
            /\ n < i =>
                 /\ Cardinality(OutcomesOf(n)) = 1
                 /\ \A j \in OutcomesOf(n) :
                       /\ actions_executed[j].action = "observation"
                       /\ actions_executed[j].success
            /\ n = i => pc \in {"start", "loop", "done"}

C8_Witness ==
    \E n \in StepIndexes :
        /\ n > 1
        /\ n < i
        /\ steps[n] = "Verify popup closes"
        /\ Classify[steps[n]].button
        /\ is_popup_visible(page)

(***************************************************************************)
(* C9: a step is treated as pure observation exactly when its lower-cased  *)
(* text contains one of the twelve observation phrases and none of click,  *)
(* press, tap, select.                                                     *)
(***************************************************************************)
C9_Expected ==
    [t \in ClassifierTexts |->
        /\ \E ph \in {"popup appears", "modal appears", "dialog appears",
                      "popup closes", "modal closes", "dialog closes",
                      "popup is visible", "modal is visible",
                      "dialog is visible", "verify popup", "check popup",
                      "popup should"} : Contains(ph, lower(t))
        /\ \A verb \in {"click", "press", "tap", "select"} :
              ~Contains(verb, lower(t))]

C9_Classified(n) ==
    n < i \/ (n = i /\ pc \in {"capture", "resolve", "parse", "execute", "click"})

C9_PureObservationIff ==
    /\ Cardinality(ObservationPhrases) = 12
    /\ \A n \in StepIndexes :
          C9_Classified(n) =>
              ((\E j \in OutcomesOf(n) : actions_executed[j].action = "observation")
                  <=> C9_Expected[steps[n]])
    /\ \A n \in StepIndexes :
          /\ (C9_Classified(n) /\ steps[n] = "Verify the popup is visible")
                => \E j \in OutcomesOf(n) : actions_executed[j].action = "observation"
          /\ (C9_Classified(n) /\ steps[n] = "Click Cancel when the popup appears")
                => OutcomesOf(n) = {} \/ \A j \in OutcomesOf(n) :
                                            actions_executed[j].action # "observation"

C9_Witness ==
    /\ steps = <<"Verify the popup is visible">>
    /\ i = 2
    /\ actions_executed[1].action = "observation"

(***************************************************************************)
(* C10: the four click strategies are tried in the fixed order standard,   *)
(* forced, script-dispatched, event-dispatch; a strategy is tried only     *)
(* after all before it failed or were skipped; the first success ends the  *)
(* click with true and no later strategy is tried.                         *)
(***************************************************************************)
C10_StrategyOrder ==
    /\ [](/\ Len(Strategies) = 4
          /\ Strategies[1].name = "Standard click (visible)"
          /\ Strategies[2].name = "Force click (visible)"
          /\ Strategies[3].name = "JS click (bypass visibility)"
          /\ Strategies[4].name = "Dispatch click (bypass visibility)")
    /\ [](pc = "click" =>
            /\ Len(attempts) <= Len(Strategies)
            /\ \A j \in DOMAIN attempts : attempts[j] = j
            /\ clicked => (attempts # <<>> /\ k = attempts[Len(attempts)])
            /\ ~clicked => k = Len(attempts) + 1)
    /\ [][(pc = "click" /\ clicked)
            => /\ pc' = "loop"
               /\ actions_executed' = Append(actions_executed,
                     [idx |-> i, step |-> steps[i], action |-> "click",
                      success |-> TRUE])]_vars
    /\ [][(pc = "click" /\ pc' = "loop" /\ ~clicked)
            => /\ Len(attempts) = Len(Strategies)
               /\ actions_executed'[Len(actions_executed')].success = FALSE]_vars

C10_Witness ==
    /\ pc = "click"
    /\ clicked
    /\ attempts = <<1, 2, 3>>

(***************************************************************************)
(* C11: when all four click strategies have failed (lookup, wait or click  *)
(* mechanism raised or timed out in each), execute_click_action returns    *)
(* false: the step's outcome is recorded with success = false and no       *)
(* exception of the call reaches the step loop.                            *)
(***************************************************************************)
C11_FallbackExhaustion ==
    /\ [][(pc = "click" /\ ~clicked /\ attempts = <<1, 2, 3, 4>>)
            => /\ actions_executed' = Append(actions_executed,
                     [idx |-> i, step |-> steps[i], action |-> "click",
                      success |-> FALSE])
               /\ errors' = errors
               /\ raised' = raised
               /\ pc' = "loop"]_vars
    /\ [](pc = "click" => ~RaisedAt(ActionCallRaises, i))

C11_Witness ==
    /\ pc = "done"
    /\ errors = <<>>
    /\ \E j \in DOMAIN actions_executed :
          /\ actions_executed[j].action = "click"
          /\ ~actions_executed[j].success
          /\ RaisedAt({"click_mechanism"}, actions_executed[j].idx)
          /\ ~RaisedAt(ActionCallRaises, actions_executed[j].idx)

(***************************************************************************)
(* C12: when the click or hover executor returns false for step N without  *)
(* raising, step N's outcome is recorded with success = false, nothing is  *)
(* appended to errors for it, and step N+1 is the step processed next.     *)
(***************************************************************************)
C12_FalseReturnGoesOn ==
    /\ [][(/\ pc \in {"click", "execute"}
           /\ Len(actions_executed') = Len(actions_executed) + 1
           /\ actions_executed'[Len(actions_executed')].action \in {"click", "hover"}
           /\ ~actions_executed'[Len(actions_executed')].success
           /\ ~\E r \in raised' \ raised : r.where \in ActionCallRaises)
            => /\ actions_executed'[Len(actions_executed')].idx = i
               /\ errors' = errors
               /\ i' = i + 1
               /\ pc' = "loop"]_vars
    /\ [](\A j \in DOMAIN actions_executed :
            (/\ actions_executed[j].action \in {"click", "hover"}
             /\ ~actions_executed[j].success
             /\ ~RaisedAt(ActionCallRaises, actions_executed[j].idx))
                => /\ \A e \in DOMAIN errors :
                         errors[e].step # actions_executed[j].idx
                   /\ i > actions_executed[j].idx)

C12_Witness ==
    /\ pc = "done"
    /\ Len(actions_executed) = 2
    /\ actions_executed[1].action = "hover"
    /\ ~actions_executed[1].success
    /\ actions_executed[2].idx = 2
    /\ errors = <<>>

(***************************************************************************)
(* C13: when the raw output of the model for a step is not JSON, is JSON   *)
(* but no object, or is an object whose "action" is null or absent, the    *)
(* step is recorded as action "none" with success = true, errors is left   *)
(* as it is, nothing is raised and the loop goes on with the next step.    *)
(***************************************************************************)
C13_Unusable(text) ==
    \/ text.json.type \in {"malformed", "empty", "null", "array"}
    \/ text.json.type = "object" /\ text.json.action \in {Absent, NULL}

C13_UnusableOutputIsNoOp ==
    [][(pc = "parse" /\ C13_Unusable(result_text))
        => /\ actions_executed' = Append(actions_executed,
                 [idx |-> i, step |-> steps[i], action |-> "none",
                  success |-> TRUE])
           /\ errors' = errors
           /\ raised' = raised
           /\ i' = i + 1
           /\ pc' = "loop"]_vars

C13_Witness ==
    /\ pc = "parse"
    /\ i = 1
    /\ Len(steps) = 2
    /\ result_text.json.type = "object"
    /\ result_text.json.action = NULL

(***************************************************************************)
(* C14: whatever fails inside the resolver for step N, the model call and  *)
(* the cache raising included, step N ends as a no-op and the run goes on: *)
(* no "Fatal error" entry comes of it.                                     *)
(***************************************************************************)
C14_ResolverFailureNeverHalts ==
    \A n \in StepIndexes :
        RaisedAt(ResolverRaises, n) =>
            /\ FatalEntries = {}
            /\ \E j \in OutcomesOf(n) : actions_executed[j].action = "none"

(***************************************************************************)
(* C20, as stated: the handler of a step-level failure at step N appends   *)
(* exactly one entry to errors.                                            *)
(***************************************************************************)
C20_HaltAppendsOneEntry ==
    [][(pc # "finish" /\ pc' = "finish") => Len(errors') = Len(errors) + 1]_vars

(***************************************************************************)
(* C20, amended: the handler of a step-level failure at step N appends two *)
(* entries to errors, the failure's message ("Failed to execute ...") and  *)
(* then "STOPPED at step N: ..."; a run holds at most one STOPPED entry.   *)
(***************************************************************************)
C20_HaltAppendsTwoEntries ==
    /\ [][(pc # "finish" /\ pc' = "finish")
            => errors' = errors \o <<[kind |-> "Failed to execute", step |-> i],
                                     [kind |-> "STOPPED at step", step |-> i]>>]_vars
    /\ [](Cardinality({j \in DOMAIN errors :
                          errors[j].kind = "STOPPED at step"}) <= 1)

C20_Witness ==
    /\ pc = "finish"
    /\ errors = <<[kind |-> "Failed to get page content", step |-> 1],
                  [kind |-> "Failed to execute", step |-> 2],
                  [kind |-> "STOPPED at step", step |-> 2]>>

(***************************************************************************)
(* C15: the parsed steps are the input lines that contain a letter, in     *)
(* input order, each trimmed and with one leading enumeration marker       *)
(* (digits, then "." or ")", then optional spaces) removed; nothing is     *)
(* reordered, merged or deduplicated, no parsed step is empty, and         *)
(* "3. Click the Submit button" yields "Click the Submit button".          *)
(***************************************************************************)
C15_Letters ==
    {"a", "b", "c", "d", "e", "f", "g", "h", "i", "j", "k", "l", "m", "n",
     "o", "p", "q", "r", "s", "t", "u", "v", "w", "x", "y", "z",
     "A", "B", "C", "D", "E", "F", "G", "H", "I", "J", "K", "L", "M", "N",
     "O", "P", "Q", "R", "S", "T", "U", "V", "W", "X", "Y", "Z"}

C15_Blank == {" ", "\t", "\r", "\f"}

C15_HasLetter(l) == \E p \in 1..Len(l) : SubSeq(l, p, p) \in C15_Letters

RECURSIVE C15_TrimLeft(_)
C15_TrimLeft(l) ==
    IF l # "" /\ SubSeq(l, 1, 1) \in C15_Blank
    THEN C15_TrimLeft(SubSeq(l, 2, Len(l))) ELSE l

RECURSIVE C15_TrimRight(_)
C15_TrimRight(l) ==
    IF l # "" /\ SubSeq(l, Len(l), Len(l)) \in C15_Blank
    THEN C15_TrimRight(SubSeq(l, 1, Len(l) - 1)) ELSE l

\* the lengths d of a leading marker: d digits and then "." or ")"
C15_Markers(l) ==
    {d \in 1..(Len(l) - 1) :
        /\ \A p \in 1..d : SubSeq(l, p, p) \in
                                {"0", "1", "2", "3", "4", "5", "6", "7", "8", "9"}
        /\ SubSeq(l, d + 1, d + 1) \in {".", ")"}}

C15_Unmarked(l) ==
    IF C15_Markers(l) = {} THEN l
    ELSE C15_TrimLeft(SubSeq(l, (CHOOSE d \in C15_Markers(l) : TRUE) + 2, Len(l)))

C15_Expected(text) ==
    LET kept == SelectSeq(split_lines(text), C15_HasLetter)
    IN  [j \in DOMAIN kept |-> C15_Unmarked(C15_TrimRight(C15_TrimLeft(kept[j])))]

C15_ParsedSteps ==
    pc = "loop" =>
        /\ steps = C15_Expected(instructions)
        /\ \A j \in DOMAIN steps : steps[j] # ""
        /\ instructions = "3. Click the Submit button"
              => steps = <<"Click the Submit button">>

C15_Witness ==
    /\ pc = "loop"
    /\ instructions = "3. Click the Submit button\n---"
    /\ steps = <<"Click the Submit button">>

(***************************************************************************)
(* C16, as stated: joining a list of clean steps with newlines and parsing *)
(* gives the same list, and parsing what the parser returned gives it      *)
(* back unchanged.                                                         *)
(***************************************************************************)
C16_CleanLine(l) ==
    /\ l # ""
    /\ C15_HasLetter(l)
    /\ SubSeq(l, 1, 1) \notin C15_Blank
    /\ SubSeq(l, Len(l), Len(l)) \notin C15_Blank
    /\ C15_Markers(l) = {}

C16_Clean(lines) == \A j \in DOMAIN lines : C16_CleanLine(lines[j])

C16_ParseOfParseIsParse ==
    pc = "loop" =>
        /\ C16_Clean(split_lines(instructions)) => steps = split_lines(instructions)
        /\ parse_steps(join_lines(steps)) = steps

(***************************************************************************)
(* C16, amended: joining a list of clean steps with newlines and parsing   *)
(* gives the same list; parsing what the parser returned gives it back     *)
(* unchanged when that output is clean, which it is unless a step is left  *)
(* with a further enumeration marker in front ("1. 2. x" gives "2. x").    *)
(***************************************************************************)
C16_CleanListIsFixed ==
    pc = "loop" =>
        /\ C16_Clean(split_lines(instructions)) => steps = split_lines(instructions)
        /\ C16_Clean(steps) => parse_steps(join_lines(steps)) = steps
        /\ \A j \in DOMAIN steps :
              C16_CleanLine(steps[j]) \/ C15_Markers(steps[j]) # {}

C16_Witness ==
    /\ pc = "loop"
    /\ instructions = "5 seconds wait\nClick Learn More"
    /\ steps = <<"5 seconds wait", "Click Learn More">>

(***************************************************************************)
(* C18: the key of a popup's markup is the same for every reordering of    *)
(* its elements, elements of equal text included.                          *)
(***************************************************************************)
C18_Reordered(html, perm) == [j \in DOMAIN html |-> html[perm[j]]]

C18_OrderIndependent ==
    structure_key.kind = "structure" =>
        \A perm \in Permutations(DOMAIN popup_html) :
            normalized(C18_Reordered(popup_html, perm)) = structure_key

(***************************************************************************)
(* C19: two markups with the same interactive elements (tag, text, type    *)
(* and role) that differ only in id, class, style or data-... values have  *)
(* the same key.                                                           *)
(***************************************************************************)
C19_SameButVolatile(a, b) ==
    /\ Len(a) = Len(b)
    /\ \A j \in DOMAIN a :
          /\ a[j].tag = b[j].tag
          /\ a[j].text = b[j].text
          /\ a[j].type = b[j].type
          /\ a[j].role = b[j].role

C19_VolatileIgnored ==
    structure_key.kind = "structure" =>
        \A other \in Markups :
            C19_SameButVolatile(other, popup_html)
                => normalized(other) = structure_key

(***************************************************************************)
(* C17: with the cache enabled, a resolve that finds an unexpired entry    *)
(* for its key and model returns the stored raw output and does not        *)
(* invoke the model; a resolve that finds none invokes the model once and  *)
(* stores its raw output under that key; so the model is not invoked for   *)
(* a key whose entry is unexpired.                                         *)
(***************************************************************************)
C17_Unexpired(h) == h \in DOMAIN llm_cache /\ llm_cache[h].expires_at > now

C17_CacheProtocol ==
    [][\A model \in Models, prompt \in CachePrompts :
         (request' = <<model, prompt>> /\ cache_on' /\ now' = now
            /\ <<request, cache_on, invoked, result_text, llm_cache>>
                  # <<request', cache_on', invoked', result_text', llm_cache'>>)
            => IF C17_Unexpired(model \o ":" \o prompt)
               THEN /\ ~invoked'
                    /\ result_text' = llm_cache[model \o ":" \o prompt].response
                    /\ llm_cache' = llm_cache
               ELSE /\ invoked'
                    /\ llm_cache'[model \o ":" \o prompt].response = result_text'
                    /\ llm_cache'[model \o ":" \o prompt].expires_at > now]_vars

(***************************************************************************)
(* C21: in a run of the scenario "1. Click Learn More / 2. Verify a popup  *)
(* appears / 3. Click Cancel / 4. Verify popup closes" in which nothing    *)
(* raised, the resolver returned a click for steps 1 and 3 (the click      *)
(* executor was called for them) and every click found its element, the    *)
(* result holds exactly four outcomes, in order: click success,            *)
(* observation no-op, click success, observation no-op; no collaborator    *)
(* was called for steps 2 and 4, and the errors list is empty.             *)
(***************************************************************************)
C21_ScenarioPremises ==
    /\ pc = "done"
    /\ instructions = join_lines(ScenarioLines)
    /\ raised = {}
    /\ Len(calls) = 4
    /\ "click" \in calls[1]
    /\ "click" \in calls[3]
    /\ \A j \in DOMAIN actions_executed :
          actions_executed[j].action = "click" => actions_executed[j].success

C21_ScenarioOutcomes ==
    C21_ScenarioPremises =>
        /\ actions_executed =
              << [idx |-> 1, step |-> "Click Learn More",
                  action |-> "click", success |-> TRUE],
                 [idx |-> 2, step |-> "Verify a popup appears",
                  action |-> "observation", success |-> TRUE],
                 [idx |-> 3, step |-> "Click Cancel",
                  action |-> "click", success |-> TRUE],
                 [idx |-> 4, step |-> "Verify popup closes",
                  action |-> "observation", success |-> TRUE] >>
        /\ calls[2] = {}
        /\ calls[4] = {}
        /\ errors = <<>>
        /\ result = "returned"

\* the scenario ran to its end: the modal was seen at step 3 and both
\* clicks were made
C21_Witness ==
    /\ C21_ScenarioPremises
    /\ Len(actions_executed) = 4
    /\ {"is_popup_visible", "extract_popup_html", "resolver", "click"}
            \subseteq calls[3]
    /\ {"page.content", "resolver", "click"} \subseteq calls[1]

(***************************************************************************)
(* C22: every action the resolver returns with use_text_locator false has  *)
(* a selector free of the pseudo-matching syntax ':contains(',             *)
(* ':has-text(' and 'text='.                                               *)
(***************************************************************************)
C22_Pseudo ==
    [sel \in {a.selector : a \in ResolvedActions} |->
        \/ Contains(":contains(", sel)
        \/ Contains(":has-text(", sel)
        \/ Contains("text=", sel)]

C22_NoPseudoSelectorReturned ==
    (pc = "execute" /\ ~action.use_text_locator) => ~C22_Pseudo[action.selector]

(***************************************************************************)
(* C30: whenever the selector handed to execute_click_action contains      *)
(* ':contains(' or ':has-text(', the click runs in text-locator mode, and  *)
(* no strategy queries the page with a structural selector that still      *)
(* contains that syntax.                                                   *)
(***************************************************************************)
C30_Legacy ==
    [sel \in {a.selector : a \in ResolvedActions}
               \cup {Converted[a.selector] : a \in ResolvedActions} |->
        Contains(":contains(", sel) \/ Contains(":has-text(", sel)]

C30_LegacySelectorClickedAsText ==
    (pc = "click" /\ attempts # <<>>) =>
        /\ C30_Legacy[action.selector] => use_text
        /\ ~use_text => ~C30_Legacy[target]

(***************************************************************************)
(* C23: a cache write on key k never changes or removes the entry of       *)
(* another key: every step of the concurrent runs changes at most one row  *)
(* of the three tables, the row of the key that the writing run is at, and *)
(* the value stored there is the value that run wrote (the last write      *)
(* wins).                                                                  *)
(***************************************************************************)
C23_Kept(rows, rows2) ==
    \A g \in DOMAIN rows : g \in DOMAIN rows2

C23_Written(rows, rows2) ==
    {g \in DOMAIN rows2 : g \notin DOMAIN rows \/ rows2[g] # rows[g]}

C23_WriterOf(table, g, value) ==
    \E w \in Writers :
        /\ writers[w].pc = "insert"
        /\ writers[w].table = table
        /\ writers[w].key = g
        /\ writers[w].value = value
        /\ writers'[w].pc = "idle"

C23_WritesDoNotInterfere ==
    [][ /\ C23_Kept(html_cache, html_cache')
        /\ C23_Kept(llm_cache, llm_cache')
        /\ C23_Kept(popup_cache, popup_cache')
        /\ Cardinality(C23_Written(html_cache, html_cache'))
             + Cardinality(C23_Written(llm_cache, llm_cache'))
             + Cardinality(C23_Written(popup_cache, popup_cache')) <= 1
        /\ \A g \in C23_Written(html_cache, html_cache') :
              C23_WriterOf("html", g, html_cache'[g].html)
        /\ \A g \in C23_Written(llm_cache, llm_cache') :
              C23_WriterOf("llm", g, llm_cache'[g].response)
        /\ \A g \in C23_Written(popup_cache, popup_cache') :
              C23_WriterOf("popup", g, popup_cache'[g].html) ]_vars

\* two runs are writing different values to one url, the first has written
\* and another url holds an entry
C23_Witness ==
    /\ writers["run2"].pc = "insert"
    /\ writers["run2"].table = "html"
    /\ writers["run2"].key = "https://a.example/"
    /\ writers["run2"].value = "<html>B</html>"
    /\ DOMAIN html_cache = Urls
    /\ html_cache["https://a.example/"].html = "<html>A</html>"

(***************************************************************************)
(* C24: an entry written at hour t with a TTL of h hours is returned by    *)
(* the matching get at every hour of [t, t + h) and at no hour from t + h  *)
(* on, whatever the clock setting of the host.                             *)
(***************************************************************************)
C24_Live(row) == now < row.cached_at + TtlHours

C24_ReturnedExactlyWithinTtl ==
    /\ \A url \in DOMAIN html_cache :
          (get_html(html_cache, url, now) # NoneStr) <=> C24_Live(html_cache[url])
    /\ \A key \in DOMAIN popup_cache :
          (get_popup_html(popup_cache, key, now) # NoneStr)
              <=> C24_Live(popup_cache[key])
    /\ \A model \in Models, prompt \in CachePrompts :
          request_hash(model, prompt) \in DOMAIN llm_cache =>
              ((get_llm_response(llm_cache, prompt, model, now) # None)
                  <=> C24_Live(llm_cache[request_hash(model, prompt)]))

(***************************************************************************)
(* C25: once start_browser has succeeded, execute_action_plan has appended *)
(* one entry per plan item gone through, in plan order, and at the end one *)
(* per item of the plan; an item of unknown kind or whose action raised is *)
(* there with success false and has an errors entry, and the items after   *)
(* it are gone through all the same.                                       *)
(***************************************************************************)
C25_Started == pc \in {"plan_loop", "plan_close", "plan_done"}
                  /\ ~RaisedAt({"start_browser"}, 0)

C25_OneEntryPerPlanItem ==
    C25_Started =>
        /\ Len(actions_executed) = i - 1
        /\ pc \in {"plan_close", "plan_done"} =>
              Len(actions_executed) = Len(action_plan)
        /\ \A n \in DOMAIN actions_executed :
              /\ actions_executed[n].action = action_plan[n].action
              /\ actions_executed[n].selector = action_plan[n].selector
              /\ action_plan[n].action \notin {"hover", "click"} =>
                    /\ ~actions_executed[n].success
                    /\ \E j \in DOMAIN errors :
                          errors[j] = Error("Unknown action", n)
              /\ RaisedAt({"plan_action"}, n) =>
                    /\ ~actions_executed[n].success
                    /\ \E j \in DOMAIN errors :
                          errors[j] = Error("Error executing", n)

\* the first item's action raised, the second item was executed and
\* succeeded
C25_Witness ==
    /\ pc = "plan_done"
    /\ result = "returned"
    /\ Len(action_plan) = 2
    /\ RaisedAt({"plan_action"}, 1)
    /\ Len(actions_executed) = 2
    /\ ~actions_executed[1].success
    /\ actions_executed[2].success

(***************************************************************************)
(* C26, as stated: every popup-related step that passed the pre-check is   *)
(* resolved, on the modal's markup when a modal is extractable and on the  *)
(* full-page markup otherwise; the capture never drops or skips it.        *)
(***************************************************************************)
C26_Extractable(p) == \E n \in DOMAIN ExtractPopupSelectors :
                         ExtractPopupSelectors[n] \in p

C26_PopupStepResolvedOnModalOrPage ==
    /\ [](pc = "resolve" /\ Classify[steps[i]].popup =>
             current_html = IF C26_Extractable(page) THEN "popup" ELSE "page")
    /\ [][pc = "capture" /\ Classify[steps[i]].popup /\ pc' # "resolve" =>
             raised' # raised]_vars

(***************************************************************************)
(* C26, amended: a popup-related step without observation phrase is        *)
(* resolved on the modal's markup when one is extractable; when none is, a *)
(* popup-control step is recorded as a skip and not resolved, and any      *)
(* other popup step is resolved on the full-page markup.  A popup-related  *)
(* step with an observation phrase is resolved on the first 5000           *)
(* characters of the page markup.                                          *)
(***************************************************************************)
C26_PopupStepMarkup ==
    /\ [](pc = "resolve" /\ Classify[steps[i]].popup =>
             IF Classify[steps[i]].observation
             THEN current_html = "page[:5000]"
             ELSE IF C26_Extractable(page)
             THEN current_html = "popup"
             ELSE current_html = "page" /\ ~Classify[steps[i]].button)
    /\ [][pc = "capture" /\ Classify[steps[i]].popup /\ pc' # "resolve"
             /\ raised' = raised =>
                /\ Classify[steps[i]].button
                /\ ~Classify[steps[i]].observation
                /\ ~C26_Extractable(page')
                /\ actions_executed' =
                      Append(actions_executed, Outcome(i, "skip", TRUE))
                /\ "resolver" \notin calls'[i]
                /\ i' = i + 1]_vars

\* a popup step that is no popup-control step is about to be resolved on
\* the full page, no modal being extractable
C26_Witness ==
    /\ pc = "resolve"
    /\ Classify[steps[i]].popup
    /\ ~Classify[steps[i]].button
    /\ ~Classify[steps[i]].observation
    /\ ~C26_Extractable(page)
    /\ current_html = "page"
    /\ "extract_popup_html" \in calls[i]

(***************************************************************************)
(* C27: every step that matches the popup-control keywords matches the     *)
(* popup-related keywords too: a step that went through the popup          *)
(* pre-check is captured and resolved as a popup step.                     *)
(***************************************************************************)
C27_ControlStepIsPopupStep ==
    (pc \in {"capture", "resolve"} /\ "is_popup_visible" \in calls[i]) =>
        /\ Classify[steps[i]].button
        /\ Classify[steps[i]].popup

(***************************************************************************)
(* C28: on every page state, extract_popup_html returns markup only if     *)
(* is_popup_visible is true of that same page state.                       *)
(***************************************************************************)
C28_ExtractedOnlyIfVisible ==
    (pc = "probed" /\ current_html # "") => is_popup_visible(page)

(***************************************************************************)
(* C29: whatever was extracted and cached before, extract_popup_html       *)
(* returns the markup it read from the page in this call, and the empty    *)
(* string when no modal is visible.                                        *)
(***************************************************************************)
C29_ReturnsMarkupRead ==
    pc = "extracted" =>
        current_html = IF \E n \in DOMAIN ExtractPopupSelectors :
                              ExtractPopupSelectors[n] \in page
                       THEN RenderAll(popup_html) ELSE ""

(***************************************************************************)
(* C31: on a target that is attached but does not become visible,          *)
(* strategies 1 and 2 are passed over without their click mechanism being  *)
(* invoked and strategies 3 and 4, when the loop comes to them, invoke     *)
(* theirs; on a target that is not attached no strategy invokes its        *)
(* mechanism and the click is recorded as failed.                          *)
(***************************************************************************)
C31_VisibilityGating ==
    /\ (pc = "click" /\ element = "hidden" /\ attempts # <<>> =>
            IF attempts[Len(attempts)] <= 2
            THEN last_pass = "not_visible"
            ELSE last_pass \in MechanismInvoked)
    /\ (pc = "click" /\ element = "detached" =>
            /\ last_pass \notin MechanismInvoked
            /\ ~clicked
            /\ ~click_result)
    /\ (element = "detached" =>
            \A j \in DOMAIN actions_executed :
                actions_executed[j].action = "click" =>
                    ~actions_executed[j].success)

\* on a hidden target the loop passed over strategies 1 and 2 and came to
\* strategy 4, whose mechanism it invoked
C31_Witness ==
    /\ pc = "click"
    /\ element = "hidden"
    /\ attempts = <<1, 2, 3, 4>>
    /\ last_pass = "mechanism_raises"
    /\ ~clicked

(***************************************************************************)
(* C32: steps are consumed strictly in order within one session: the page  *)
(* is opened once, before any step; every return to the head of the loop   *)
(* advances the index by exactly one, so no step is processed twice;       *)
(* nothing is called or recorded for a step beyond the current one, and    *)
(* nothing more for a step already left; the browser and the context      *)
(* opened at the start stay open, and the same, until the run ends.        *)
(***************************************************************************)
C32_StepsInOrder ==
    /\ [](pc = "start" => /\ steps = <<>>
                          /\ actions_executed = <<>>
                          /\ browser = "none")
    /\ [](pc # "start" =>
             /\ \A n \in DOMAIN calls : calls[n] # {} => n <= i
             /\ \A j \in DOMAIN actions_executed :
                    actions_executed[j].idx <= i)
    /\ [][pc # "start" =>
             /\ pc' # "start"
             /\ steps' = steps
             /\ i' \in {i, i + 1}
             /\ \A n \in DOMAIN calls : n # i => calls'[n] = calls[n]
             /\ (pc' = "loop" => i' = i + 1)
             /\ (i' = i + 1 => /\ pc' = "loop"
                               /\ action' = NoAction
                               /\ current_html' = "")
             /\ (pc' # "done" => /\ browser' = browser
                                 /\ context' = context
                                 /\ browser = "open"
                                 /\ context = "open")]_vars

\* the second step is being executed after the first was resolved and clicked
C32_Witness ==
    /\ i = 2
    /\ pc = "execute"
    /\ {"resolver", "click"} \subseteq calls[1]
    /\ calls[2] # {}
    /\ Len(actions_executed) = 1

(***************************************************************************)
(* C33: once the click mechanism of a strategy has completed without       *)
(* raising, the strategy loop makes no further pass and the call returns   *)
(* true, however the waits that follow the click end.                      *)
(***************************************************************************)
C33_ClickedOnceThenTrue ==
    (pc = "click" /\ last_pass \in {"settle_raises", "clicked"}) =>
        /\ ~StrategyLoopRuns
        /\ click_result

(***************************************************************************)
(* C34: a resolver cache hit for a popup step returns an output that was   *)
(* produced for the same target and action: what is replayed is the answer *)
(* to the step being resolved.                                             *)
(***************************************************************************)
C34_KeySteps == {st \in KeySteps : steps = <<st.text>>}

C34_HitAnswersSameTarget ==
    (cache_on /\ ~invoked /\ C34_KeySteps # {}) =>
        \A st \in C34_KeySteps : result_text = ModelAnswer(st)

(***************************************************************************)
(* C35: a step is skipped by the popup pre-check only if it names a popup  *)
(* control: one of the control keywords stands in its text as a word, not  *)
(* merely inside a longer word.                                            *)
(***************************************************************************)
C35_AsWord(kw, s) ==
    \E p \in 1..(Len(s) - Len(kw) + 1) :
        /\ SubSeq(s, p, p + Len(kw) - 1) = kw
        /\ p = 1 \/ ~isalpha(SubSeq(s, p - 1, p - 1))
        /\ p + Len(kw) > Len(s) \/ ~isalpha(SubSeq(s, p + Len(kw), p + Len(kw)))

C35_NamesControl ==
    [t \in ClassifierTexts |->
        \E kw \in PopupButtonKeywords : C35_AsWord(kw, lower(t))]

C35_SkippedOnlyIfControlNamed ==
    \A j \in DOMAIN actions_executed :
        actions_executed[j].action = "skip" =>
            C35_NamesControl[actions_executed[j].step]

(***************************************************************************)
(* C36: a request to /api/generate leaves the cache setting of the process *)
(* as it was: no step of a request, while it runs or when it ends, changes *)
(* what get_cache() answers, ENABLE_CACHE unset at the start included.     *)
(***************************************************************************)
C36_CacheSettingUnchanged ==
    [][cache_enabled(environ') = cache_enabled(environ)]_vars

(***************************************************************************)
(* C37: only usable model outputs are replayed from the resolver cache: a  *)
(* resolve answered from the cache never returns an output that fails      *)
(* JSON parsing.                                                           *)
(***************************************************************************)
C37_MalformedNeverReplayed ==
    (cache_on /\ ~invoked /\ request # <<>>) =>
        result_text.json.type # "malformed"

(***************************************************************************)
(* C38, as stated: in every run that processed all parsed steps without    *)
(* an action exception and without a fatal error, errors is empty.         *)
(***************************************************************************)
C38_Completed ==
    /\ pc = "done"
    /\ result = "returned"
    /\ i > Len(steps)
    /\ ~Halted
    /\ FatalEntries = {}
    /\ \A n \in StepIndexes : ~RaisedAt(ActionCallRaises, n)

C38_ErrorsOnlyWhenHaltedOrFatal == C38_Completed => errors = <<>>

(***************************************************************************)
(* C38, amended: errors holds an entry "Failed to get page content" for    *)
(* exactly the steps whose page capture raised, and these steps do not     *)
(* halt the run; with no capture failure, no halt and no fatal error,      *)
(* errors is empty at any time, and so in every run that processed all     *)
(* parsed steps.                                                           *)
(***************************************************************************)
C38_CaptureFailed(n) == RaisedAt({"page.content"}, n)

C38_ErrorsOnlyOnFailure ==
    /\ \A n \in StepIndexes :
          C38_CaptureFailed(n) <=>
              \E j \in DOMAIN errors :
                  errors[j] = Error("Failed to get page content", n)
    /\ \A j \in DOMAIN errors :
          \/ errors[j].kind = "Failed to get page content"
          \/ errors[j].kind = "Fatal error"
          \/ errors[j].kind \in {"Failed to execute", "STOPPED at step"}
                /\ Stopped(errors[j].step)
    /\ (~Halted /\ FatalEntries = {}
            /\ \A n \in StepIndexes : ~C38_CaptureFailed(n)) => errors = <<>>

\* a run that processed both of its steps, the capture of the first having
\* failed: nothing halted it, and errors is not empty
C38_Witness ==
    /\ C38_Completed
    /\ Len(steps) = 2
    /\ errors = <<Error("Failed to get page content", 1)>>
    /\ Len(actions_executed) = 1

(***************************************************************************)
(* C39: every run terminates: when each wait completes or times out, the   *)
(* run leaves the step loop and returns; a click attempts at most the four *)
(* strategies, and the step index only moves forward, by one, up to the    *)
(* end of the parsed steps.                                                *)
(***************************************************************************)
C39_RunTerminates ==
    /\ <>(pc = "done" /\ result = "returned")
    /\ [](/\ Len(attempts) <= Len(Strategies)
          /\ i <= Len(steps) + 1)
    /\ [][i' \in {i, i + 1}]_vars

\* a run of the four-step scenario that returned after its first click went
\* through all four strategies
C39_Witness ==
    /\ pc = "done"
    /\ result = "returned"
    /\ Len(steps) = 4
    /\ i > Len(steps)
    /\ \E j \in DOMAIN actions_executed :
          /\ actions_executed[j].action = "click"
          /\ ~actions_executed[j].success
          /\ actions_executed[j].idx = 1

(***************************************************************************)
(* C40: when clear_expired has returned, stats, taken at the same hour and *)
(* with no write in between, counts no expired entry in any of the three   *)
(* tables, and every entry that had not expired is still there.            *)
(***************************************************************************)
C40_NoExpiredAfterClear ==
    [][ClearExpired =>
          /\ stats(html_cache', llm_cache', popup_cache', now').html_expired = 0
          /\ stats(html_cache', llm_cache', popup_cache', now').llm_expired = 0
          /\ stats(html_cache', llm_cache', popup_cache', now').popup_expired = 0
          /\ \A url \in DOMAIN html_cache :
                html_cache[url].expires_at > now => url \in DOMAIN html_cache'
          /\ \A h \in DOMAIN llm_cache :
                llm_cache[h].expires_at > now => h \in DOMAIN llm_cache'
          /\ \A key \in DOMAIN popup_cache :
                popup_cache[key].expires_at > now => key \in DOMAIN popup_cache']_vars

====
